---- MODULE Spec2Model ----
(***************************************************************************)
(* A model of the golfscript-rs evaluator (src/src/main.rs and the helper  *)
(* modules value.rs, coerce.rs, util.rs, parse.rs, unescape.rs).           *)
(*                                                                         *)
(* The evaluator is the struct Gs: a value stack, a variable map, the      *)
(* sequence lb of `[` marks and the PRNG state.  Gs::run tokenizes a byte  *)
(* string and executes its tokens one after the other; a primitive that    *)
(* runs a block re-enters Gs::run on the same state.  The recursion is     *)
(* modelled by the sequence `frames`: one frame per active call of         *)
(* Gs::run, holding the tokens still to execute and what the caller does   *)
(* when the run returns.                                                   *)
(***************************************************************************)
EXTENDS Integers, Sequences, FiniteSets, TLC

VARIABLES
    stack,      \* Gs.stack: the value stack, bottom first
    vars,       \* Gs.vars: lexeme -> value
    lb,         \* Gs.lb: the marks pushed by `[`, oldest first
    rng_state,  \* Gs.rng_state
    frames,     \* the active calls of Gs::run, outermost first
    status,     \* "running"; "panic" once the process has aborted; "hang"
                \* once a primitive has entered a loop it never leaves
    input,      \* the stack the evaluator was started on
    fuel,       \* tokens the top-level code may still supply after its prefix
    steps,      \* actions taken so far
    op,         \* history: the operation and the token of the last action
    shadow      \* history: per mark of lb, what the stack did since its `[`

vars_all == <<stack, vars, lb, rng_state, frames, status, input, fuel, steps,
              op, shadow>>

----------------------------------------------------------------------------
(* Bounds of the model.                                                    *)

MaxFree == 2
MaxSteps == 40
MaxStack == 6
MaxDepth == 3
MaxInt == 10000
MaxPow == 4

----------------------------------------------------------------------------
(* Bytes.  A byte is an integer 0..255; source text is written as a        *)
(* sequence of one-character strings and converted with B ("bq" stands    *)
(* for the backquote, byte 96).                                            *)

Ascii ==
    <<" ", "!", "\"", "#", "$", "%", "&", "'", "(", ")", "*", "+", ",", "-",
      ".", "/", "0", "1", "2", "3", "4", "5", "6", "7", "8", "9", ":", ";",
      "<", "=", ">", "?", "@", "A", "B", "C", "D", "E", "F", "G", "H", "I",
      "J", "K", "L", "M", "N", "O", "P", "Q", "R", "S", "T", "U", "V", "W",
      "X", "Y", "Z", "[", "\\", "]", "^", "_", "bq", "a", "b", "c", "d", "e",
      "f", "g", "h", "i", "j", "k", "l", "m", "n", "o", "p", "q", "r", "s",
      "t", "u", "v", "w", "x", "y", "z", "{", "|", "}", "~">>

Ord == [c \in {Ascii[i] : i \in 1..Len(Ascii)} |->
           31 + (CHOOSE i \in 1..Len(Ascii) : Ascii[i] = c)]

B(s) == [i \in 1..Len(s) |-> Ord[s[i]]]

is_alphabetic(c) == (c >= 65 /\ c <= 90) \/ (c >= 97 /\ c <= 122)

is_digit(c) == c >= 48 /\ c <= 57

Min(a, b) == IF a <= b THEN a ELSE b

Max(a, b) == IF a >= b THEN a ELSE b

Front(s) == SubSeq(s, 1, Len(s) - 1)

Last(s) == s[Len(s)]

\* s[from..] in Rust's zero-based numbering
Drop(s, from) == SubSeq(s, from + 1, Len(s))

\* s[..to] in Rust's zero-based numbering
Take(s, to) == SubSeq(s, 1, to)

Reverse(s) == [i \in 1..Len(s) |-> s[Len(s) + 1 - i]]

----------------------------------------------------------------------------
(* Values: enum Gval (IntV for Gval::Int, and so on).                      *)

IntV(n) == [k |-> "Int", v |-> n]

ArrV(vs) == [k |-> "Arr", v |-> vs]

StrV(bs) == [k |-> "Str", v |-> bs]

BlkV(bs) == [k |-> "Blk", v |-> bs]

----------------------------------------------------------------------------
(* The tokenizer: parse.rs.  A token is its kind and its lexeme; the       *)
(* lexeme of a block is the source between its braces.                     *)

Tok(t, lex) == [t |-> t, lex |-> lex]

Symbol(s) == Tok("Symbol", B(s))

\* take_while(pred) from position i (one-based): the first position not taken
RECURSIVE SkipIdent(_, _)
SkipIdent(bs, i) ==
    IF i <= Len(bs) /\ (is_alphabetic(bs[i]) \/ is_digit(bs[i]) \/ bs[i] = 95)
    THEN SkipIdent(bs, i + 1) ELSE i

RECURSIVE SkipDigits(_, _)
SkipDigits(bs, i) ==
    IF i <= Len(bs) /\ is_digit(bs[i]) THEN SkipDigits(bs, i + 1) ELSE i

RECURSIVE SkipLine(_, _)
SkipLine(bs, i) ==
    IF i <= Len(bs) /\ bs[i] # 13 /\ bs[i] # 10 THEN SkipLine(bs, i + 1) ELSE i

\* many0(inner) of parse_string: a backslash takes the next byte with it,
\* any other byte but the delimiter is taken alone
RECURSIVE SkipInner(_, _, _)
SkipInner(bs, i, delimiter) ==
    IF i > Len(bs) THEN i
    ELSE IF bs[i] = 92 /\ i + 1 <= Len(bs) THEN SkipInner(bs, i + 2, delimiter)
    ELSE IF bs[i] # delimiter THEN SkipInner(bs, i + 1, delimiter)
    ELSE i

NoToken == [ok |-> FALSE, tok |-> Tok("none", <<>>), next |-> 0]

Got(t, bs, i, j) == [ok |-> TRUE, tok |-> Tok(t, SubSeq(bs, i, j - 1)), next |-> j]

parse_identifier(bs, i) ==
    IF is_alphabetic(bs[i]) \/ bs[i] = 95
    THEN Got("Symbol", bs, i, SkipIdent(bs, i + 1)) ELSE NoToken

parse_string(t, delimiter, bs, i) ==
    IF bs[i] # delimiter THEN NoToken
    ELSE LET j == SkipInner(bs, i + 1, delimiter)
         IN  IF j <= Len(bs) /\ bs[j] = delimiter
             THEN Got(t, bs, i, j + 1) ELSE NoToken

parse_int_literal(bs, i) ==
    LET d == IF bs[i] = 45 THEN i + 1 ELSE i
        j == SkipDigits(bs, d)
    IN  IF j > d THEN Got("IntLiteral", bs, i, j) ELSE NoToken

parse_comment(bs, i) ==
    IF bs[i] = 35 THEN Got("Comment", bs, i, SkipLine(bs, i + 1)) ELSE NoToken

parse_symbol(bs, i) ==
    IF bs[i] # 123 /\ bs[i] # 125 /\ bs[i] # 34 /\ bs[i] # 39
    THEN Got("Symbol", bs, i, i + 1) ELSE NoToken

RECURSIVE parse_code(_, _)
RECURSIVE parse_token(_, _)

\* '{' parse_code '}'; the token keeps the source between the braces.  inner
\* is the one result of the nested parse_code.
parse_block(bs, i) ==
    IF bs[i] # 123 THEN NoToken
    ELSE CHOOSE r \in
           { IF inner.next <= Len(bs) /\ bs[inner.next] = 125
             THEN [ok |-> TRUE,
                   tok |-> Tok("Block", SubSeq(bs, i + 1, inner.next - 1)),
                   next |-> inner.next + 1]
             ELSE NoToken : inner \in {parse_code(bs, i + 1)} } : TRUE

\* alt(...): the first alternative that parses
parse_token(bs, i) ==
    IF i > Len(bs) THEN NoToken
    ELSE IF parse_identifier(bs, i).ok THEN parse_identifier(bs, i)
    ELSE IF parse_string("SingleQuotedString", 39, bs, i).ok
         THEN parse_string("SingleQuotedString", 39, bs, i)
    ELSE IF parse_string("DoubleQuotedString", 34, bs, i).ok
         THEN parse_string("DoubleQuotedString", 34, bs, i)
    ELSE IF parse_int_literal(bs, i).ok THEN parse_int_literal(bs, i)
    ELSE IF parse_comment(bs, i).ok THEN parse_comment(bs, i)
    ELSE IF parse_block(bs, i).ok THEN parse_block(bs, i)
    ELSE parse_symbol(bs, i)

\* many0(parse_token) from position i: the tokens and the first position
\* left unparsed.  t is the one result of parse_token at i, more the one
\* result of the parse that follows it.
parse_code(bs, i) ==
    CHOOSE r \in
      { IF ~t.ok THEN [toks |-> <<>>, next |-> i]
        ELSE CHOOSE q \in
               { [toks |-> <<t.tok>> \o more.toks, next |-> more.next] :
                   more \in {parse_code(bs, t.next)} } : TRUE :
        t \in {parse_token(bs, i)} } : TRUE

\* Gs::run's first lines: the tokens of code, or a panic on a remainder
Tokenize(code) ==
    LET p == parse_code(code, 1)
    IN  [ok |-> p.next > Len(code), toks |-> p.toks]

----------------------------------------------------------------------------
(* Integers: num::BigInt.                                                  *)

abs(n) == IF n < 0 THEN -n ELSE n

\* Integer::div_floor and Integer::mod_floor, b # 0
div_floor(a, b) ==
    IF b > 0 THEN a \div b ELSE (-a) \div (-b)

mod_floor(a, b) == a - b * div_floor(a, b)

\* BigInt::to_str_radix(10) as bytes
RECURSIVE DecimalDigits(_)
DecimalDigits(n) ==
    IF n < 10 THEN <<48 + n>> ELSE Append(DecimalDigits(n \div 10), 48 + (n % 10))

to_str_radix(n) == IF n < 0 THEN <<45>> \o DecimalDigits(-n) ELSE DecimalDigits(n)

\* BigInt::parse_bytes(bs, 10) of an IntLiteral lexeme, -?[0-9]+
RECURSIVE ParseDigits(_, _)
ParseDigits(bs, acc) ==
    IF bs = <<>> THEN acc ELSE ParseDigits(Tail(bs), 10 * acc + (Head(bs) - 48))

parse_bytes(bs) ==
    IF Head(bs) = 45 THEN -ParseDigits(Tail(bs), 0) ELSE ParseDigits(bs, 0)

\* BigInt::pow(e)
RECURSIVE pow(_, _)
pow(a, e) == IF e = 0 THEN 1 ELSE a * pow(a, e - 1)

\* A u64 is its eight bytes, the least significant first: u64(n, 8) is the
\* u64 of the literal n
RECURSIVE u64(_, _)
u64(n, k) == IF k = 0 THEN <<>> ELSE <<n % 256>> \o u64(n \div 256, k - 1)

\* u64::overflowing_mul by m < 2^22, the product wrapped to 64 bits
RECURSIVE overflowing_mul(_, _, _)
overflowing_mul(s, m, carry) ==
    IF s = <<>> THEN <<>>
    ELSE <<(Head(s) * m + carry) % 256>>
             \o overflowing_mul(Tail(s), m, (Head(s) * m + carry) \div 256)

\* u64::overflowing_add, the sum wrapped to 64 bits
RECURSIVE overflowing_add(_, _, _)
overflowing_add(s, t, carry) ==
    IF s = <<>> THEN <<>>
    ELSE <<(Head(s) + Head(t) + carry) % 256>>
             \o overflowing_add(Tail(s), Tail(t), (Head(s) + Head(t) + carry) \div 256)

\* BigInt | BigInt, on the two's complement digits of any length
RECURSIVE bitor(_, _)
bitor(x, y) ==
    IF x = 0 THEN y ELSE IF y = 0 THEN x
    ELSE IF x = -1 \/ y = -1 THEN -1
    ELSE 2 * bitor(x \div 2, y \div 2) + (IF x % 2 = 1 \/ y % 2 = 1 THEN 1 ELSE 0)

\* BigInt & BigInt
RECURSIVE bitand(_, _)
bitand(x, y) ==
    IF x = 0 \/ y = 0 THEN 0
    ELSE IF x = -1 THEN y ELSE IF y = -1 THEN x
    ELSE 2 * bitand(x \div 2, y \div 2) + (IF x % 2 = 1 /\ y % 2 = 1 THEN 1 ELSE 0)

\* BigInt ^ BigInt
RECURSIVE bitxor(_, _)
bitxor(x, y) ==
    IF x = 0 THEN y ELSE IF y = 0 THEN x
    ELSE IF x = -1 THEN -y - 1 ELSE IF y = -1 THEN -x - 1
    ELSE 2 * bitxor(x \div 2, y \div 2) + (IF x % 2 # y % 2 THEN 1 ELSE 0)

\* u64 % BigInt, for 0 < n
RECURSIVE rem(_, _)
rem(s, n) == IF s = <<>> THEN 0 ELSE (rem(Tail(s), n) * 256 + Head(s)) % n

----------------------------------------------------------------------------
(* unescape.rs: the bytes of a quoted literal.                             *)

DoubleEscape(c) ==
    CASE c = 97 -> 7 [] c = 98 -> 8 [] c = 116 -> 9 [] c = 110 -> 10
      [] c = 118 -> 11 [] c = 102 -> 12 [] c = 114 -> 13 [] c = 101 -> 27
      [] c = 115 -> 32 [] OTHER -> c

RECURSIVE UnescapeFrom(_, _, _, _)
UnescapeFrom(lexeme, i, single_quoted, escaping) ==
    IF i >= Len(lexeme) THEN <<>>
    ELSE IF escaping THEN
        (IF single_quoted
         THEN (IF lexeme[i] # 92 /\ lexeme[i] # 39 THEN <<92, lexeme[i]>>
               ELSE <<lexeme[i]>>)
         ELSE <<DoubleEscape(lexeme[i])>>)
        \o UnescapeFrom(lexeme, i + 1, single_quoted, FALSE)
    ELSE IF lexeme[i] = 92 THEN UnescapeFrom(lexeme, i + 1, single_quoted, TRUE)
    ELSE <<lexeme[i]>> \o UnescapeFrom(lexeme, i + 1, single_quoted, FALSE)

unescape(lexeme, single_quoted) == UnescapeFrom(lexeme, 2, single_quoted, FALSE)

----------------------------------------------------------------------------
(* value.rs and coerce.rs.                                                 *)

\* falsey that takes the empty Blk for truthy: a faulty variant
falsey_but_blk(x) == IF x.k = "Int" THEN x.v = 0 ELSE x.k # "Blk" /\ Len(x.v) = 0

falsey(x) == IF x.k = "Int" THEN x.v = 0 ELSE Len(x.v) = 0

truthy(x) == ~falsey(x)

bool(value) == IntV(IF value THEN 1 ELSE 0)

\* From<u8> for Gval, applied to every byte of a Str or Blk
BytesToInts(bs) == [i \in 1..Len(bs) |-> IntV(bs[i])]

RECURSIVE to_gs(_)
RECURSIVE ConcatGs(_)
ConcatGs(vs) == IF vs = <<>> THEN <<>> ELSE to_gs(Head(vs)) \o ConcatGs(Tail(vs))

to_gs(x) ==
    CASE x.k = "Int" -> to_str_radix(x.v)
      [] x.k = "Arr" -> ConcatGs(x.v)
      [] x.k = "Str" -> x.v
      [] x.k = "Blk" -> <<123>> \o x.v \o <<125>>

RECURSIVE flatten_append(_, _)
RECURSIVE FlattenAll(_, _)
FlattenAll(bytes, vs) ==
    IF vs = <<>> THEN bytes ELSE FlattenAll(flatten_append(bytes, Head(vs)), Tail(vs))

flatten_append(bytes, val) ==
    CASE val.k = "Int" -> Append(bytes, mod_floor(val.v, 256))
      [] val.k = "Arr" -> FlattenAll(bytes, val.v)
      [] OTHER -> bytes \o val.v

flatten(arr) == flatten_append(<<>>, ArrV(arr))

RECURSIVE ShowWordsFrom(_, _)
ShowWordsFrom(arr, i) ==
    IF i > Len(arr) THEN <<>>
    ELSE (IF i > 1 THEN <<32>> ELSE <<>>) \o to_gs(arr[i]) \o ShowWordsFrom(arr, i + 1)

show_words(arr) == ShowWordsFrom(arr, 1)

\* enum Coerced: the common kind and the two payloads
Coerced(k, a, b) == [k |-> k, a |-> a, b |-> b]

\* coerce with the arm (Str, Blk) returning Strs: a faulty variant
coerce_str_blk(a, b) ==
    CASE a.k = "Str" /\ b.k = "Blk" -> Coerced("Str", a.v, b.v)
      [] a.k = b.k -> Coerced(a.k, a.v, b.v)
      [] a.k = "Blk" /\ b.k = "Str" -> Coerced("Blk", a.v, b.v)
      [] a.k = "Int" /\ b.k = "Arr" -> Coerced("Arr", <<IntV(a.v)>>, b.v)
      [] a.k = "Arr" /\ b.k = "Int" -> Coerced("Arr", a.v, <<IntV(b.v)>>)
      [] a.k = "Int" /\ b.k = "Str" -> Coerced("Str", to_str_radix(a.v), b.v)
      [] a.k = "Str" /\ b.k = "Int" -> Coerced("Str", a.v, to_str_radix(b.v))
      [] a.k = "Int" /\ b.k = "Blk" -> Coerced("Blk", to_str_radix(a.v), b.v)
      [] a.k = "Blk" /\ b.k = "Int" -> Coerced("Blk", a.v, to_str_radix(b.v))
      [] a.k = "Arr" /\ b.k = "Str" -> Coerced("Str", flatten(a.v), b.v)
      [] a.k = "Str" /\ b.k = "Arr" -> Coerced("Str", a.v, flatten(b.v))
      [] a.k = "Arr" /\ b.k = "Blk" -> Coerced("Blk", show_words(a.v), b.v)
      [] a.k = "Blk" /\ b.k = "Arr" -> Coerced("Blk", a.v, show_words(b.v))

coerce(a, b) ==
    CASE a.k = b.k -> Coerced(a.k, a.v, b.v)
      [] a.k = "Str" /\ b.k = "Blk" -> Coerced("Blk", a.v, b.v)
      [] a.k = "Blk" /\ b.k = "Str" -> Coerced("Blk", a.v, b.v)
      [] a.k = "Int" /\ b.k = "Arr" -> Coerced("Arr", <<IntV(a.v)>>, b.v)
      [] a.k = "Arr" /\ b.k = "Int" -> Coerced("Arr", a.v, <<IntV(b.v)>>)
      [] a.k = "Int" /\ b.k = "Str" -> Coerced("Str", to_str_radix(a.v), b.v)
      [] a.k = "Str" /\ b.k = "Int" -> Coerced("Str", a.v, to_str_radix(b.v))
      [] a.k = "Int" /\ b.k = "Blk" -> Coerced("Blk", to_str_radix(a.v), b.v)
      [] a.k = "Blk" /\ b.k = "Int" -> Coerced("Blk", a.v, to_str_radix(b.v))
      [] a.k = "Arr" /\ b.k = "Str" -> Coerced("Str", flatten(a.v), b.v)
      [] a.k = "Str" /\ b.k = "Arr" -> Coerced("Str", a.v, flatten(b.v))
      [] a.k = "Arr" /\ b.k = "Blk" -> Coerced("Blk", show_words(a.v), b.v)
      [] a.k = "Blk" /\ b.k = "Arr" -> Coerced("Blk", a.v, show_words(b.v))

\* Coerced::left
left(c) == [k |-> c.k, v |-> c.a]

\* Gval::plus
plus(self, other) ==
    LET c == coerce(self, other)
    IN  CASE c.k = "Int" -> IntV(c.a + c.b)
          [] c.k = "Arr" -> ArrV(c.a \o c.b)
          [] c.k = "Str" -> StrV(c.a \o c.b)
          [] c.k = "Blk" -> BlkV(c.a \o <<32>> \o c.b)

RECURSIVE JoinRest(_, _, _)
JoinRest(r, rest, sep) ==
    IF rest = <<>> THEN r
    ELSE JoinRest(plus(plus(r, sep), Head(rest)), Tail(rest), sep)

\* join that leaves the separator out between the elements: a faulty variant
join_without_sep(a, sep) ==
    IF a = <<>> THEN (IF sep.k = "Arr" THEN ArrV(<<>>) ELSE StrV(<<>>))
    ELSE JoinRest(left(coerce(Head(a), sep)), Tail(a),
                  IF sep.k = "Arr" THEN ArrV(<<>>) ELSE StrV(<<>>))

join(a, sep) ==
    IF a = <<>> THEN (IF sep.k = "Arr" THEN ArrV(<<>>) ELSE StrV(<<>>))
    ELSE JoinRest(left(coerce(Head(a), sep)), Tail(a), sep)

----------------------------------------------------------------------------
(* util.rs.                                                                *)

RECURSIVE repeat(_, _)
repeat(a, n) == IF n > 0 THEN a \o repeat(a, n - 1) ELSE <<>>

\* a.chunks(size), size > 0
RECURSIVE Chunks(_, _)
Chunks(a, size) ==
    IF Len(a) = 0 THEN <<>>
    ELSE <<Take(a, Min(size, Len(a)))>> \o Chunks(Drop(a, Min(size, Len(a))), size)

\* chunk that tests n before it tests a: a faulty variant
chunk_panics_on_empty(a, n) == n = 0

\* chunk: the pieces, or a panic on n = 0 with a non-empty a
chunk_panics(a, n) == Len(a) # 0 /\ n = 0

chunk(a, n) ==
    IF Len(a) = 0 THEN <<>>
    ELSE Chunks(IF n < 0 THEN Reverse(a) ELSE a, abs(n))

\* split's loop from j (zero-based) with the piece i and the pieces r so far
RECURSIVE SplitLoop(_, _, _, _, _, _)
SplitLoop(a, sep, clean, j, i, r) ==
    IF j < Len(a) THEN
        IF j + Len(sep) <= Len(a) /\ SubSeq(a, j + 1, j + Len(sep)) = sep
        THEN SplitLoop(a, sep, clean, j + Len(sep), <<>>,
                       IF ~clean \/ Len(i) > 0 THEN Append(r, i) ELSE r)
        ELSE SplitLoop(a, sep, clean, j + 1, Append(i, a[j + 1]), r)
    ELSE IF ~clean \/ Len(i) > 0 THEN Append(r, i) ELSE r

\* with an empty sep and a non-empty a the loop never advances j
split_diverges(a, sep) == Len(sep) = 0 /\ Len(a) > 0

\* split that keeps the empty pieces whatever clean is: a faulty variant
split_unclean(a, sep, clean) == SplitLoop(a, sep, FALSE, 0, <<>>, <<>>)

split(a, sep, clean) == SplitLoop(a, sep, clean, 0, <<>>, <<>>)

\* the loops of set_or, set_and and set_xor: the values of vs that are in
\* keep and not yet in seen, each pushed once
RECURSIVE SetLoop(_, _, _)
SetLoop(vs, keep, seen) ==
    IF vs = <<>> THEN <<>>
    ELSE IF Head(vs) \in keep /\ Head(vs) \notin seen
    THEN <<Head(vs)>> \o SetLoop(Tail(vs), keep, seen \cup {Head(vs)})
    ELSE SetLoop(Tail(vs), keep, seen)

\* HashSet built from a vector
HashSet(a) == {a[i] : i \in 1..Len(a)}

set_or(a, b) == SetLoop(a \o b, HashSet(a \o b), {})

\* the intersection in the order of a: the loop over a, with membership in b
set_and_over_a(a, b) == SetLoop(a, HashSet(b), {})

\* set_and: the loop is over b, with membership in a
set_and(a, b) == SetLoop(b, HashSet(a), {})

set_xor(a, b) ==
    SetLoop(a \o b, (HashSet(a) \cup HashSet(b)) \ (HashSet(a) \cap HashSet(b)), {})

\* iter.step_by(m), m > 0
RECURSIVE StepBy(_, _)
StepBy(a, m) ==
    IF Len(a) = 0 THEN <<>> ELSE <<Head(a)>> \o StepBy(Drop(a, Min(m, Len(a))), m)

\* step_by(0) panics
every_nth_panics(n) == n = 0

every_nth(a, n) == StepBy(IF n < 0 THEN Reverse(a) ELSE a, abs(n))

\* Iterator::position(|x| *x == n) as question uses it: the index of the
\* first element equal to n, or -1
position(h, n) ==
    IF \E i \in 1..Len(h) : h[i] = n
    THEN (CHOOSE i \in 1..Len(h) : h[i] = n /\ \A j \in 1..i - 1 : h[j] # n) - 1
    ELSE -1

string_index(haystack, needle) ==
    LET at == {i \in 0..Len(haystack) - Len(needle) :
                  SubSeq(haystack, i + 1, i + Len(needle)) = needle}
    IN  IF at = {} THEN -1 ELSE CHOOSE i \in at : \A j \in at : i <= j


----------------------------------------------------------------------------
(* The evaluator's stack and marks while one primitive executes.           *)
(* g.ok is FALSE once the primitive has panicked, g.hang is TRUE once it   *)
(* has entered a loop it never leaves; g.low is the lowest stack length    *)
(* the primitive has reached (read only by the history variable shadow).   *)

Gs(s, marks) ==
    [stack |-> s, lb |-> marks, ok |-> TRUE, hang |-> FALSE, low |-> Len(s)]

panic(g) == [g EXCEPT !.ok = FALSE]

hang(g) == [g EXCEPT !.hang = TRUE]

push(g, val) == IF g.ok THEN [g EXCEPT !.stack = Append(@, val)] ELSE g

\* self.stack.extend(vs)
extend(g, vs) == IF g.ok THEN [g EXCEPT !.stack = @ \o vs] ELSE g

\* Gs::top: the value read (the caller checks the stack is not empty)
top(g) == Last(g.stack)

\* a pop that discards the marks it crosses instead of lowering them: a
\* faulty variant
SlideMarks_discarding(marks, i, len) ==
    IF i > 0 /\ marks[i] >= len THEN Take(marks, i - 1) ELSE marks

\* the loop of Gs::pop from index i (one-based) downward
RECURSIVE SlideMarks(_, _, _)
SlideMarks(marks, i, len) ==
    IF i > 0 /\ marks[i] >= len
    THEN SlideMarks([marks EXCEPT ![i] = IF @ > 0 THEN @ - 1 ELSE @], i - 1, len)
    ELSE marks

\* Gs::pop; the value popped is top(g)
pop(g) ==
    IF ~g.ok THEN g
    ELSE IF Len(g.stack) = 0 THEN panic(g)
    ELSE [g EXCEPT !.stack = Front(@),
                   !.lb = SlideMarks(g.lb, Len(g.lb), Len(g.stack)),
                   !.low = Min(@, Len(g.stack) - 1)]

\* self.stack.drain(from..): the stack left; the values drained are
\* Drop(g.stack, from).  A range that starts past the end panics.
drain(g, from) ==
    IF ~g.ok THEN g
    ELSE IF from > Len(g.stack) THEN panic(g)
    ELSE [g EXCEPT !.stack = Take(@, from), !.low = Min(@, from)]

----------------------------------------------------------------------------
(* Frames.  A frame is one active call of Gs::run: toks are the tokens it  *)
(* has still to execute, kind says who called it and the other fields are  *)
(* the caller's local variables.                                           *)

Frame0 ==
    [kind |-> "run", toks |-> <<>>, code |-> <<>>, code2 |-> <<>>,
     rest |-> <<>>, lbm |-> 0, acc |-> <<>>, n |-> 0, phase |-> "", out |-> ""]

\* what a primitive leaves: the stack and marks, and the call of Gs::run it
\* makes, if any
Ret(g) == [g |-> g, call |-> <<>>]

\* a run that executes the tokens parsed before the remainder: a faulty
\* variant
Call_before_remainder(g, frame, code) ==
    IF ~g.ok THEN Ret(g)
    ELSE [g |-> g, call |-> <<[frame EXCEPT !.toks = Tokenize(code).toks]>>]

\* self.run(code) with the caller's variables in frame
Call(g, frame, code) ==
    LET p == Tokenize(code)
    IN  IF ~g.ok THEN Ret(g)
        ELSE IF p.ok THEN [g |-> g, call |-> <<[frame EXCEPT !.toks = p.toks]>>]
        ELSE Ret(panic(g))

\* Gs::go that pushes a Blk instead of running it: a faulty variant
go_push(g, val) == Ret(push(g, val))

\* Gs::go
go(g, val) == IF val.k = "Blk" THEN Call(g, Frame0, val.v) ELSE Ret(push(g, val))


----------------------------------------------------------------------------
(* The primitives of main.rs, each from the stack and marks it is given to *)
(* what it leaves.                                                         *)

\* Gs::dup
dup(g) ==
    LET a == top(g)
        g1 == pop(g)
    IN  IF ~g1.ok THEN Ret(g1) ELSE Ret(push(push(g1, a), a))

\* `;` that does nothing on an empty stack: a faulty variant
semicolon_or_nothing(g) == IF Len(g.stack) = 0 THEN Ret(g) ELSE Ret(pop(g))

\* run_token, Symbol(";")
semicolon(g) == Ret(pop(g))

\* `\` that pushes b twice instead of b and a: a faulty variant
backslash_twice_b(g) ==
    LET b == top(g)
        g1 == pop(g)
        g2 == pop(g1)
    IN  IF ~g2.ok THEN Ret(g2) ELSE Ret(push(push(g2, b), b))

\* run_token, Symbol("\\")
backslash(g) ==
    LET b == top(g)
        g1 == pop(g)
        a == top(g1)
        g2 == pop(g1)
    IN  IF ~g2.ok THEN Ret(g2) ELSE Ret(push(push(g2, b), a))

\* at_sign that pushes b, a, c instead of b, c, a: a faulty variant
at_sign_b_a_c(g) ==
    LET c == top(g)
        g1 == pop(g)
        b == top(g1)
        g2 == pop(g1)
        a == top(g2)
        g3 == pop(g2)
    IN  IF ~g3.ok THEN Ret(g3) ELSE Ret(push(push(push(g3, b), a), c))

\* Gs::at_sign
at_sign(g) ==
    LET c == top(g)
        g1 == pop(g)
        b == top(g1)
        g2 == pop(g1)
        a == top(g2)
        g3 == pop(g2)
    IN  IF ~g3.ok THEN Ret(g3) ELSE Ret(push(push(push(g3, b), c), a))

\* run_token, Symbol("["): self.lb.push(self.stack.len())
left_bracket(g) == Ret([g EXCEPT !.lb = Append(@, Len(g.stack))])

\* run_token, Symbol("]"): the mark popped, 0 when there is none
right_bracket_mark(g) == IF Len(g.lb) = 0 THEN 0 ELSE Last(g.lb)

right_bracket(g) ==
    LET m == right_bracket_mark(g)
        g1 == [g EXCEPT !.lb = IF Len(@) = 0 THEN @ ELSE Front(@)]
        g2 == drain(g1, m)
    IN  IF ~g2.ok THEN Ret(g2) ELSE Ret(push(g2, ArrV(Drop(g.stack, m))))

\* Gs::tilde
tilde(g) ==
    LET x == top(g)
        g1 == pop(g)
    IN  IF ~g1.ok THEN Ret(g1)
        ELSE CASE x.k = "Int" -> Ret(push(g1, IntV(-x.v - 1)))
               [] x.k = "Arr" -> Ret(extend(g1, x.v))
               [] OTHER -> Call(g1, Frame0, x.v)

\* Gs::plus
gs_plus(g) ==
    LET b == top(g)
        g1 == pop(g)
        a == top(g1)
        g2 == pop(g1)
    IN  IF ~g2.ok THEN Ret(g2) ELSE Ret(push(g2, plus(a, b)))

\* Gs::fold
fold(g, code, vs) ==
    IF Len(vs) = 0 THEN Ret(g)
    ELSE IF Len(vs) = 1 THEN Ret(push(g, vs[1]))
    ELSE Call(push(push(g, vs[1]), vs[2]),
              [Frame0 EXCEPT !.kind = "fold", !.code = code, !.rest = Drop(vs, 2)],
              code)

\* Gs::each
each(g, code, vs) ==
    IF Len(vs) = 0 THEN Ret(g)
    ELSE Call(push(g, vs[1]),
              [Frame0 EXCEPT !.kind = "each", !.code = code, !.rest = Tail(vs)],
              code)

\* what percent pushes once gs_map has returned r
MapResult(out, r) == IF out = "Arr" THEN ArrV(r) ELSE StrV(flatten(r))

\* Gs::gs_map, called by percent for an Arr (out = "Arr") or a Str
gs_map(g, code, vs, out) ==
    IF Len(vs) = 0 THEN Ret(push(g, MapResult(out, <<>>)))
    ELSE Call(push(g, vs[1]),
              [Frame0 EXCEPT !.kind = "map", !.code = code, !.rest = Tail(vs),
                             !.lbm = Len(g.stack), !.out = out],
              code)

\* asterisk, the times arm: while n.is_positive() { run(f); n -= 1 }
times(g, f, n) ==
    IF n > 0
    THEN Call(g, [Frame0 EXCEPT !.kind = "times", !.code = f, !.n = n - 1], f)
    ELSE Ret(g)

\* slash, the unfold arm
unfold(g, cond, step) ==
    IF Len(g.stack) = 0 THEN Ret(panic(g))
    ELSE Call(push(g, top(g)),
              [Frame0 EXCEPT !.kind = "unfold", !.code = cond, !.code2 = step,
                             !.phase = "cond"],
              cond)

OneByteStrs(bs) == [i \in 1..Len(bs) |-> StrV(<<bs[i]>>)]

\* Gs::asterisk
asterisk(g) ==
    LET b == top(g)
        g1 == pop(g)
        a == top(g1)
        g2 == pop(g1)
    IN  IF ~g2.ok THEN Ret(g2)
        ELSE CASE a.k = "Int" /\ b.k = "Int" -> Ret(push(g2, IntV(a.v * b.v)))
               [] a.k = "Arr" /\ b.k = "Arr" -> Ret(push(g2, join(a.v, b)))
               [] a.k = "Arr" /\ b.k = "Str" -> Ret(push(g2, join(a.v, b)))
               [] a.k = "Str" /\ b.k = "Arr" -> Ret(push(g2, join(b.v, a)))
               [] a.k = "Str" /\ b.k = "Str" ->
                      Ret(push(g2, join(OneByteStrs(a.v), b)))
               [] a.k = "Blk" /\ b.k = "Blk" -> fold(g2, a.v, BytesToInts(b.v))
               [] a.k = "Str" /\ b.k = "Blk" -> fold(g2, b.v, BytesToInts(a.v))
               [] a.k = "Blk" /\ b.k = "Str" -> fold(g2, a.v, BytesToInts(b.v))
               [] a.k = "Arr" /\ b.k = "Blk" -> fold(g2, b.v, a.v)
               [] a.k = "Blk" /\ b.k = "Arr" -> fold(g2, a.v, b.v)
               [] a.k = "Int" /\ b.k = "Arr" -> Ret(push(g2, ArrV(repeat(b.v, a.v))))
               [] a.k = "Arr" /\ b.k = "Int" -> Ret(push(g2, ArrV(repeat(a.v, b.v))))
               [] a.k = "Int" /\ b.k = "Str" -> Ret(push(g2, StrV(repeat(b.v, a.v))))
               [] a.k = "Str" /\ b.k = "Int" -> Ret(push(g2, StrV(repeat(a.v, b.v))))
               [] a.k = "Int" /\ b.k = "Blk" -> times(g2, b.v, a.v)
               [] a.k = "Blk" /\ b.k = "Int" -> times(g2, a.v, b.v)

\* s.into_iter().map(Arr).collect() and s.into_iter().map(Str).collect()
Pieces(k, s) == [i \in 1..Len(s) |-> [k |-> k, v |-> s[i]]]

\* the split arms of slash (clean = FALSE) and percent (clean = TRUE)
SplitArm(g, k, a, sep, clean) ==
    IF split_diverges(a, sep) THEN Ret(hang(g))
    ELSE Ret(push(g, ArrV(Pieces(k, split(a, sep, clean)))))

\* the chunk arms of slash
ChunkArm(g, k, a, n) ==
    IF chunk_panics(a, n) THEN Ret(panic(g))
    ELSE Ret(push(g, ArrV(Pieces(k, chunk(a, n)))))

\* Gs::slash
slash(g) ==
    LET b == top(g)
        g1 == pop(g)
        a == top(g1)
        g2 == pop(g1)
    IN  IF ~g2.ok THEN Ret(g2)
        ELSE CASE a.k = "Int" /\ b.k = "Int" ->
                      (IF b.v = 0 THEN Ret(panic(g2))
                       ELSE Ret(push(g2, IntV(div_floor(a.v, b.v)))))
               [] a.k = "Arr" /\ b.k = "Arr" -> SplitArm(g2, "Arr", a.v, b.v, FALSE)
               [] a.k = "Str" /\ b.k = "Str" -> SplitArm(g2, "Str", a.v, b.v, FALSE)
               [] a.k = "Arr" /\ b.k = "Str" ->
                      SplitArm(g2, "Arr", a.v, BytesToInts(b.v), FALSE)
               [] a.k = "Str" /\ b.k = "Arr" ->
                      SplitArm(g2, "Arr", b.v, BytesToInts(a.v), FALSE)
               [] a.k = "Str" /\ b.k = "Blk" -> each(g2, b.v, BytesToInts(a.v))
               [] a.k = "Blk" /\ b.k = "Str" -> each(g2, a.v, BytesToInts(b.v))
               [] a.k = "Arr" /\ b.k = "Blk" -> each(g2, b.v, a.v)
               [] a.k = "Blk" /\ b.k = "Arr" -> each(g2, a.v, b.v)
               [] a.k = "Int" /\ b.k = "Arr" -> ChunkArm(g2, "Arr", b.v, a.v)
               [] a.k = "Arr" /\ b.k = "Int" -> ChunkArm(g2, "Arr", a.v, b.v)
               [] a.k = "Int" /\ b.k = "Str" -> ChunkArm(g2, "Str", b.v, a.v)
               [] a.k = "Str" /\ b.k = "Int" -> ChunkArm(g2, "Str", a.v, b.v)
               [] a.k = "Blk" /\ b.k = "Blk" -> unfold(g2, a.v, b.v)
               [] OTHER -> Ret(panic(g2))

\* the every-nth arms of percent
EveryNthArm(g, k, a, n) ==
    IF every_nth_panics(n) THEN Ret(panic(g))
    ELSE Ret(push(g, [k |-> k, v |-> every_nth(a, n)]))

\* Gs::percent
percent(g) ==
    LET b == top(g)
        g1 == pop(g)
        a == top(g1)
        g2 == pop(g1)
    IN  IF ~g2.ok THEN Ret(g2)
        ELSE CASE a.k = "Int" /\ b.k = "Int" ->
                      (IF b.v = 0 THEN Ret(panic(g2))
                       ELSE Ret(push(g2, IntV(mod_floor(a.v, b.v)))))
               [] a.k = "Arr" /\ b.k = "Arr" -> SplitArm(g2, "Arr", a.v, b.v, TRUE)
               [] a.k = "Str" /\ b.k = "Str" -> SplitArm(g2, "Str", a.v, b.v, TRUE)
               [] a.k = "Arr" /\ b.k = "Str" ->
                      SplitArm(g2, "Arr", a.v, BytesToInts(b.v), TRUE)
               [] a.k = "Str" /\ b.k = "Arr" ->
                      SplitArm(g2, "Arr", b.v, BytesToInts(a.v), TRUE)
               [] a.k = "Arr" /\ b.k = "Blk" -> gs_map(g2, b.v, a.v, "Arr")
               [] a.k = "Blk" /\ b.k = "Arr" -> gs_map(g2, a.v, b.v, "Arr")
               [] a.k = "Str" /\ b.k = "Blk" ->
                      gs_map(g2, b.v, BytesToInts(a.v), "Str")
               [] a.k = "Blk" /\ b.k = "Str" ->
                      gs_map(g2, a.v, BytesToInts(b.v), "Str")
               [] a.k = "Int" /\ b.k = "Arr" -> EveryNthArm(g2, "Arr", b.v, a.v)
               [] a.k = "Arr" /\ b.k = "Int" -> EveryNthArm(g2, "Arr", a.v, b.v)
               [] a.k = "Int" /\ b.k = "Str" -> EveryNthArm(g2, "Str", b.v, a.v)
               [] a.k = "Str" /\ b.k = "Int" -> EveryNthArm(g2, "Str", a.v, b.v)
               [] OTHER -> Ret(panic(g2))

\* Gval::as_arr (main.rs calls it into_arr), for a value that is not an Int
into_arr(x) == IF x.k = "Arr" THEN x.v ELSE BytesToInts(x.v)

\* the digits of i in base b, least significant first: the loop of Gs::base
RECURSIVE BaseDigits(_, _)
BaseDigits(i, b) ==
    IF i = 0 THEN <<>>
    ELSE <<IntV(mod_floor(i, b))>> \o BaseDigits(div_floor(i, b), b)

\* total = total * b + digit, over the digits
RECURSIVE BaseTotal(_, _, _)
BaseTotal(digits, b, total) ==
    IF digits = <<>> THEN total
    ELSE BaseTotal(Tail(digits), b, total * b + Head(digits).v)

\* Gs::base without digits.reverse(): a faulty variant
base_unreversed(g) ==
    LET b == top(g)
        g1 == pop(g)
        n == top(g1)
        g2 == pop(g1)
    IN  IF ~g1.ok THEN Ret(g1)
        ELSE IF b.k # "Int" THEN Ret(panic(g1))
        ELSE IF ~g2.ok THEN Ret(g2)
        ELSE IF n.k = "Int" THEN
            (IF n.v = 0 THEN Ret(push(g2, ArrV(<<>>)))
             ELSE IF b.v = 0 THEN Ret(panic(g2))
             ELSE IF abs(b.v) = 1 THEN Ret(hang(g2))
             ELSE Ret(push(g2, ArrV(BaseDigits(abs(n.v), b.v)))))
        ELSE IF \E i \in 1..Len(n.v) : into_arr(n)[i].k # "Int" THEN Ret(panic(g2))
        ELSE Ret(push(g2, IntV(BaseTotal(into_arr(n), b.v, 0))))

\* Gs::base
base(g) ==
    LET b == top(g)
        g1 == pop(g)
        n == top(g1)
        g2 == pop(g1)
    IN  IF ~g1.ok THEN Ret(g1)
        ELSE IF b.k # "Int" THEN Ret(panic(g1))
        ELSE IF ~g2.ok THEN Ret(g2)
        ELSE IF n.k = "Int" THEN
            (IF n.v = 0 THEN Ret(push(g2, ArrV(<<>>)))
             ELSE IF b.v = 0 THEN Ret(panic(g2))
             ELSE IF abs(b.v) = 1 THEN Ret(hang(g2))
             ELSE Ret(push(g2, ArrV(Reverse(BaseDigits(abs(n.v), b.v))))))
        ELSE IF \E i \in 1..Len(n.v) : into_arr(n)[i].k # "Int" THEN Ret(panic(g2))
        ELSE Ret(push(g2, IntV(BaseTotal(into_arr(n), b.v, 0))))

\* Gs::bang
bang(g) ==
    LET x == top(g)
        g1 == pop(g)
    IN  IF ~g1.ok THEN Ret(g1) ELSE Ret(push(g1, bool(falsey(x))))

\* dollar that counts a negative n from -1 instead of -2: a faulty variant
dollar_from_minus_one(g) ==
    LET n == top(g).v
        g1 == pop(g)
        len == Len(g1.stack)
    IN  IF ~g1.ok THEN Ret(g1)
        ELSE IF n < 0
        THEN (IF -n - 1 < len THEN Ret(push(g1, g1.stack[(-n - 1) + 1]))
              ELSE Ret(g1))
        ELSE IF n >= 0 /\ n < len THEN Ret(push(g1, g1.stack[(len - 1 - n) + 1]))
        ELSE Ret(g1)

\* Gs::dollar, the arm of an Int n; g1.stack[i + 1] is self.stack[i]
dollar(g) ==
    LET n == top(g).v
        g1 == pop(g)
        len == Len(g1.stack)
    IN  IF ~g1.ok THEN Ret(g1)
        ELSE IF n < -1
        THEN (IF -n - 2 < len THEN Ret(push(g1, g1.stack[(-n - 2) + 1]))
              ELSE Ret(g1))
        ELSE IF n >= 0 /\ n < len THEN Ret(push(g1, g1.stack[(len - 1 - n) + 1]))
        ELSE Ret(g1)

\* question that looks for the byte n mod 256 in a Str: a faulty variant
question_mod_256(g) ==
    LET b == top(g)
        g1 == pop(g)
        a == top(g1)
        g2 == pop(g1)
    IN  IF ~g2.ok THEN Ret(g2)
        ELSE CASE a.k = "Int" /\ b.k = "Int" ->
                      Ret(push(g2, IntV(IF b.v >= 0 THEN pow(a.v, b.v) ELSE 0)))
               [] a.k = "Arr" /\ b.k \in {"Int", "Str", "Arr"} ->
                      Ret(push(g2, IntV(position(a.v, b))))
               [] a.k \in {"Int", "Str"} /\ b.k = "Arr" ->
                      Ret(push(g2, IntV(position(b.v, a))))
               [] a.k = "Str" /\ b.k = "Int" ->
                      Ret(push(g2, IntV(position(a.v, mod_floor(b.v, 256)))))
               [] a.k = "Int" /\ b.k = "Str" ->
                      Ret(push(g2, IntV(position(b.v, mod_floor(a.v, 256)))))
               [] a.k = "Str" /\ b.k = "Str" ->
                      Ret(push(g2, IntV(string_index(a.v, b.v))))
               [] OTHER -> Ret(panic(g2))

\* Gs::question, the arms that run no block: power, indexof, and the panic
\* on an Int and a Blk
question(g) ==
    LET b == top(g)
        g1 == pop(g)
        a == top(g1)
        g2 == pop(g1)
    IN  IF ~g2.ok THEN Ret(g2)
        ELSE CASE a.k = "Int" /\ b.k = "Int" ->
                      Ret(push(g2, IntV(IF b.v >= 0 THEN pow(a.v, b.v) ELSE 0)))
               [] a.k = "Arr" /\ b.k \in {"Int", "Str", "Arr"} ->
                      Ret(push(g2, IntV(position(a.v, b))))
               [] a.k \in {"Int", "Str"} /\ b.k = "Arr" ->
                      Ret(push(g2, IntV(position(b.v, a))))
               [] a.k = "Str" /\ b.k = "Int" ->
                      Ret(push(g2, IntV(IF b.v >= 0 /\ b.v <= 255
                                        THEN position(a.v, b.v) ELSE -1)))
               [] a.k = "Int" /\ b.k = "Str" ->
                      Ret(push(g2, IntV(IF a.v >= 0 /\ a.v <= 255
                                        THEN position(b.v, a.v) ELSE -1)))
               [] a.k = "Str" /\ b.k = "Str" ->
                      Ret(push(g2, IntV(string_index(a.v, b.v))))
               [] OTHER -> Ret(panic(g2))

\* rng that adds the increment before it multiplies: a faulty variant
rng_add_first(state) ==
    overflowing_mul(overflowing_add(state, u64(1013904223, 8), 0), 1664525, 0)

\* `and` that pushes the operand it selects: a faulty variant
gs_and_pushed(g) ==
    LET b == top(g)
        g1 == pop(g)
        a == top(g1)
        g2 == pop(g1)
    IN  IF ~g2.ok THEN Ret(g2) ELSE Ret(push(g2, IF truthy(a) THEN b ELSE a))

\* run_token, Symbol("and")
gs_and(g) ==
    LET b == top(g)
        g1 == pop(g)
        a == top(g1)
        g2 == pop(g1)
    IN  IF ~g2.ok THEN Ret(g2) ELSE go(g2, IF truthy(a) THEN b ELSE a)

\* run_token, Symbol("or")
gs_or(g) ==
    LET b == top(g)
        g1 == pop(g)
        a == top(g1)
        g2 == pop(g1)
    IN  IF ~g2.ok THEN Ret(g2) ELSE go(g2, IF falsey(a) THEN b ELSE a)

\* Gs::vertical_bar
vertical_bar(g) ==
    LET b == top(g)
        g1 == pop(g)
        a == top(g1)
        g2 == pop(g1)
        c == coerce(a, b)
    IN  IF ~g2.ok THEN Ret(g2)
        ELSE IF c.k = "Int" THEN Ret(push(g2, IntV(bitor(c.a, c.b))))
        ELSE Ret(push(g2, [k |-> c.k, v |-> set_or(c.a, c.b)]))

\* Gs::ampersand
ampersand(g) ==
    LET b == top(g)
        g1 == pop(g)
        a == top(g1)
        g2 == pop(g1)
        c == coerce(a, b)
    IN  IF ~g2.ok THEN Ret(g2)
        ELSE IF c.k = "Int" THEN Ret(push(g2, IntV(bitand(c.a, c.b))))
        ELSE Ret(push(g2, [k |-> c.k, v |-> set_and(c.a, c.b)]))

\* Gs::caret
caret(g) ==
    LET b == top(g)
        g1 == pop(g)
        a == top(g1)
        g2 == pop(g1)
        c == coerce(a, b)
    IN  IF ~g2.ok THEN Ret(g2)
        ELSE IF c.k = "Int" THEN Ret(push(g2, IntV(bitxor(c.a, c.b))))
        ELSE Ret(push(g2, [k |-> c.k, v |-> set_xor(c.a, c.b)]))

\* Gs::rng: the new rng_state, which is also the value returned
rng(state) ==
    overflowing_add(overflowing_mul(state, 1664525, 0), u64(1013904223, 8), 0)

\* Gs::rand on the PRNG state it is given
rand(g, state) ==
    LET x == top(g)
        g1 == pop(g)
    IN  IF ~g1.ok THEN Ret(g1)
        ELSE IF x.k = "Int" /\ x.v > 0
        THEN Ret(push(g1, IntV(rem(rng(state), x.v))))
        ELSE Ret(push(g1, IntV(0)))

\* Gs::do_loop.  A body that is not a Blk is pushed and popped again by
\* every round: the loop ends at once when it is falsey and never otherwise.
do_loop(g) ==
    LET a == top(g)
        g1 == pop(g)
    IN  IF ~g1.ok THEN Ret(g1)
        ELSE IF a.k = "Blk"
        THEN Call(g1, [Frame0 EXCEPT !.kind = "do", !.code = a.v], a.v)
        ELSE IF falsey(a) THEN Ret(pop(push(g1, a)))
        ELSE Ret(hang(g1))

\* Gs::while_loop from `if self.pop().falsey() == which` on; f.rest is
\* <<a, b>>.  When neither a nor b is a Blk no round runs code and the loop
\* never ends.
WhileTest(g, f) ==
    LET x == top(g)
        g1 == pop(g)
        a == f.rest[1]
        b == f.rest[2]
    IN  IF ~g1.ok THEN Ret(g1)
        ELSE IF falsey(x) = (f.out = "while") THEN Ret(g1)
        ELSE IF b.k = "Blk" THEN Call(g1, [f EXCEPT !.phase = "body"], b.v)
        ELSE IF a.k = "Blk"
        THEN Call(push(g1, b), [f EXCEPT !.phase = "cond"], a.v)
        ELSE Ret(hang(g1))

\* Gs::while_loop from `self.go(a.clone())` on
WhileCond(g, f) ==
    IF f.rest[1].k = "Blk"
    THEN Call(g, [f EXCEPT !.phase = "cond"], f.rest[1].v)
    ELSE WhileTest(push(g, f.rest[1]), f)

\* while_loop that runs b before the first run of a: a faulty variant
while_loop_body_first(g, which) ==
    LET b == top(g)
        g1 == pop(g)
        a == top(g1)
        g2 == pop(g1)
        f == [Frame0 EXCEPT !.kind = "while", !.rest = <<a, b>>,
                            !.out = IF which THEN "while" ELSE "until"]
    IN  IF ~g2.ok THEN Ret(g2)
        ELSE IF b.k = "Blk" THEN Call(g2, [f EXCEPT !.phase = "body"], b.v)
        ELSE WhileCond(g2, f)

\* Gs::while_loop; which is TRUE for `while` and FALSE for `until`
while_loop(g, which) ==
    LET b == top(g)
        g1 == pop(g)
        a == top(g1)
        g2 == pop(g1)
    IN  IF ~g2.ok THEN Ret(g2)
        ELSE WhileCond(g2, [Frame0 EXCEPT !.kind = "while", !.rest = <<a, b>>,
                                         !.out = IF which THEN "while"
                                                 ELSE "until"])


----------------------------------------------------------------------------
(* What the caller of Gs::run does when the run returns, per kind of       *)
(* frame f: the rest of the loop the call was made from.                   *)

\* tilde, go: nothing is left to do
AfterRun(g, f) == Ret(g)

\* asterisk, the times arm: n -= 1 and the loop test
AfterTimes(g, f) ==
    IF f.n > 0 THEN Call(g, [f EXCEPT !.n = @ - 1], f.code) ELSE Ret(g)

\* Gs::fold and Gs::each: the next element
AfterEach(g, f) ==
    IF Len(f.rest) > 0
    THEN Call(push(g, Head(f.rest)), [f EXCEPT !.rest = Tail(@)], f.code)
    ELSE Ret(g)

\* gs_map that assigns the drained values to r instead of extending r by
\* them: a faulty variant
AfterMap_assign(g, f) ==
    LET g1 == drain(g, f.lbm)
        r == Drop(g.stack, f.lbm)
    IN  IF ~g1.ok THEN Ret(g1)
        ELSE IF Len(f.rest) > 0
        THEN Call(push(g1, Head(f.rest)),
                  [f EXCEPT !.rest = Tail(@), !.lbm = Len(g1.stack), !.acc = r],
                  f.code)
        ELSE Ret(push(g1, MapResult(f.out, r)))

\* Gs::gs_map: r.extend(self.stack.drain(lb..)), then the next element or
\* percent's push of the result
AfterMap(g, f) ==
    LET g1 == drain(g, f.lbm)
        r == f.acc \o Drop(g.stack, f.lbm)
    IN  IF ~g1.ok THEN Ret(g1)
        ELSE IF Len(f.rest) > 0
        THEN Call(push(g1, Head(f.rest)),
                  [f EXCEPT !.rest = Tail(@), !.lbm = Len(g1.stack), !.acc = r],
                  f.code)
        ELSE Ret(push(g1, MapResult(f.out, r)))

\* slash, the unfold arm: after cond, the test and the step; after step,
\* the next round
AfterUnfold(g, f) ==
    IF f.phase = "cond" THEN
        LET x == top(g)
            g1 == pop(g)
        IN  IF ~g1.ok THEN Ret(g1)
            ELSE IF falsey(x) THEN Ret(push(pop(g1), ArrV(f.acc)))
            ELSE IF Len(g1.stack) = 0 THEN Ret(panic(g1))
            ELSE Call(g1, [f EXCEPT !.acc = Append(@, top(g1)), !.phase = "step"],
                      f.code2)
    ELSE IF Len(g.stack) = 0 THEN Ret(panic(g))
    ELSE Call(push(g, top(g)), [f EXCEPT !.phase = "cond"], f.code)

\* do_loop that breaks when the value popped is truthy: a faulty variant
AfterDo_until(g, f) ==
    LET x == top(g)
        g1 == pop(g)
    IN  IF ~g1.ok THEN Ret(g1)
        ELSE IF truthy(x) THEN Ret(g1)
        ELSE Call(g1, f, f.code)

\* Gs::do_loop: the pop and the test after a run of the body
AfterDo(g, f) ==
    LET x == top(g)
        g1 == pop(g)
    IN  IF ~g1.ok THEN Ret(g1)
        ELSE IF falsey(x) THEN Ret(g1)
        ELSE Call(g1, f, f.code)

\* Gs::while_loop: after a run of a the test, after a run of b the next
\* round
AfterWhile(g, f) == IF f.phase = "cond" THEN WhileTest(g, f) ELSE WhileCond(g, f)

----------------------------------------------------------------------------
(* The programs.  The top-level code is one of Prefixes followed by up to  *)
(* MaxFree further tokens, each any of FreeCode.                           *)

Prefixes ==
    { <<>>,
      B(<<"1", " ", "2", " ", "3">>),
      B(<<"[", "1", "]", "{", "0", " ", "0", "[", "}", "%">>),
      B(<<"[", "1", "]", "{", "0", " ", "0", "[", "}", "%", "[">>),
      B(<<"0", "[", "[", "1", "]", "{", ";", ";", "}", "%">>),
      B(<<"[", "7", "]", "{", "[", "}", "%">>),
      B(<<"1", "[", "2", " ", "3">>),
      B(<<"1", " ", "2", "[", "[", ";">>),
      B(<<"[", "1", " ", "2", " ", "1", "]", "[", "1", "]">>),
      B(<<"[", "1", " ", "2", "]", "\"", "a", "\"">>),
      B(<<"\"", "a", "b", "a", "\"", "\"", "b", "\"">>),
      B(<<"[", "1", " ", "2", " ", "3", "]", "{", "+", "}", "*">>),
      B(<<"[", "1", " ", "2", "]", "{", ".", "}", "/">>),
      B(<<"2", "{", "1", "}", "*">>),
      B(<<"1", "{", ".", "}", "{", ";", "0", "}", "/">>),
      B(<<"\"", "a", "b", "\"", "{", ".", "}", "%">>),
      B(<<"'", "1", " ", "2", "'", "~">>),
      B(<<"5", " ", "2", " ", "b", "a", "s", "e">>),
      B(<<"{", ";", "}", ":", "x", ";", "1", " ", "2">>),
      B(<<"[", "1", "]", "{", "0", " ", "0", "[", "}", "%", "[", "0">>),
      B(<<"[", "[", "7", "]", "{", "[", "}", "%">>),
      B(<<"7", ":", "2", ";", "2", " ", "2">>),
      B(<<"1", ":", ";", "#", "c">>),
      B(<<"6", " ", "7", " ", "{", ".", "@", "\\", "%", ".", "}", " ", "d", "o",
          " ", ";">>),
      B(<<"0", " ", "1", " ", "2", "{", ".", "}", "{", ";", "}", "w", "h", "i",
          "l", "e">>),
      B(<<"1", " ", "0", "{", ".", "}", "{", ";", "}", "u", "n", "t", "i", "l">>),
      B(<<"'", "1", " ", "}", "'">>),
      B(<<"'", "}", "'", "{", "}", "+", ":", "x", ";">>),
      B(<<"1", " ", "}">>),
      B(<<"1", "{", "2">>),
      B(<<"1", "\"", "a">>),
      B(<<"1", "{", "}", "{", "}", "w", "h", "i", "l", "e">>),
      B(<<"1", ":", "y", ";", "2", "{", ":", "y", "}", "~", ";", "y">>) }

FreeSources ==
    { B(<<"[">>), B(<<"]">>), B(<<";">>), B(<<".">>), B(<<"\\">>), B(<<"@">>),
      B(<<"~">>), B(<<"+">>), B(<<"*">>), B(<<"/">>), B(<<"%">>),
      B(<<"b", "a", "s", "e">>), B(<<"0">>), B(<<"2">>), B(<<"x">>), B(<<" ">>),
      B(<<"!">>), B(<<"$">>), B(<<"?">>), B(<<"r", "a", "n", "d">>),
      B(<<"d", "o">>), B(<<"w", "h", "i", "l", "e">>),
      B(<<"u", "n", "t", "i", "l">>), B(<<"a", "n", "d">>), B(<<"o", "r">>),
      B(<<"|">>), B(<<"&">>), B(<<"^">>),
      B(<<"{", ";", "}">>), B(<<"{", "[", "}">>), B(<<"\"", "a", "\"">>) }

Colon == Tok("Symbol", <<58>>)

\* one token, `:` and the token it binds, or `:` as the last token of the code
FreeCode ==
    { Tokenize(src).toks : src \in FreeSources }
        \cup { <<Colon, t>> : t \in {Tok("Symbol", <<120>>), Tok("Symbol", <<59>>)} }
        \cup { <<Colon>> }


----------------------------------------------------------------------------
(* The state machine.                                                      *)

TopFrame == frames[Len(frames)]

\* a token supply that may lose the next token: a faulty variant
Supply_or_less ==
    IF Len(TopFrame.toks) > 1
    THEN {[toks |-> TopFrame.toks, free |-> FALSE],
          [toks |-> Tail(TopFrame.toks), free |-> FALSE]}
    ELSE IF Len(TopFrame.toks) > 0 THEN {[toks |-> TopFrame.toks, free |-> FALSE]}
    ELSE IF Len(frames) = 1 /\ fuel > 0
    THEN {[toks |-> ts, free |-> TRUE] : ts \in FreeCode}
    ELSE {}

\* the code the next token is read from: the rest of the running frame, or
\* what the top-level code goes on with after its prefix
Supply ==
    IF Len(TopFrame.toks) > 0 THEN {[toks |-> TopFrame.toks, free |-> FALSE]}
    ELSE IF Len(frames) = 1 /\ fuel > 0
    THEN {[toks |-> ts, free |-> TRUE] : ts \in FreeCode}
    ELSE {}

\* the frames once the running frame is left with the tokens rest
With(rest) == [frames EXCEPT ![Len(frames)].toks = rest]

Bound(t) == t.lex \in DOMAIN vars

\* lexemes run_token gives a primitive of their own
Modelled ==
    { B(<<"~">>), B(<<"@">>), B(<<"+">>), B(<<"*">>), B(<<"/">>), B(<<"%">>),
      B(<<"[">>), B(<<"]">>), B(<<"\\">>), B(<<";">>), B(<<".">>),
      B(<<"b", "a", "s", "e">>), B(<<"!">>), B(<<"$">>), B(<<"?">>),
      B(<<"r", "a", "n", "d">>), B(<<"d", "o">>),
      B(<<"w", "h", "i", "l", "e">>), B(<<"u", "n", "t", "i", "l">>),
      B(<<"a", "n", "d">>), B(<<"o", "r">>), B(<<"|">>), B(<<"&">>),
      B(<<"^">>) }

\* primitives of run_token this model does not execute: a token of these
\* stops the run
NotModelled ==
    { <<96>>, B(<<"-">>), B(<<"<">>), B(<<"=">>), B(<<">">>), B(<<",">>),
      B(<<"(">>), B(<<")">>),
      B(<<"x", "o", "r">>), B(<<"n">>), B(<<"p", "r", "i", "n", "t">>),
      B(<<"p">>), B(<<"p", "u", "t", "s">>), B(<<"i", "f">>),
      B(<<"a", "b", "s">>), B(<<"z", "i", "p">>) }

\* the operation the last action executed and the token it was read from
Op(name, t) == [name |-> name, tok |-> t]

\* no token: the step of a caller whose run has returned
NoTok == Tok("", <<>>)

\* the history of the marks: per pending mark the stack length at its `[`
\* and the lowest length the stack has had since
ShadowAfter(name, low) ==
    LET seen == [i \in 1..Len(shadow) |-> [shadow[i] EXCEPT !.low = Min(@, low)]]
    IN  CASE name = "left_bracket" ->
                 Append(seen, [len0 |-> Len(stack), low |-> Len(stack)])
          [] name = "right_bracket" ->
                 IF Len(seen) = 0 THEN seen ELSE Front(seen)
          [] OTHER -> seen

\* the step every action ends with: r is what the operation leaves, below
\* are the frames it returns to
Commit(name, t, r, below, free) ==
    /\ steps' = steps + 1
    /\ op' = Op(name, t)
    /\ fuel' = IF free THEN fuel - 1 ELSE fuel
    /\ input' = input
    /\ IF r.g.hang THEN
           /\ status' = "hang"
           /\ UNCHANGED <<stack, lb, frames, shadow>>
       ELSE IF ~r.g.ok THEN
           /\ status' = "panic"
           /\ UNCHANGED <<stack, lb, frames, shadow>>
       ELSE
           /\ Len(r.g.stack) <= MaxStack
           /\ \A i \in 1..Len(r.g.stack) :
                  r.g.stack[i].k = "Int" => abs(r.g.stack[i].v) <= MaxInt
           /\ Len(below) + Len(r.call) <= MaxDepth
           /\ status' = "running"
           /\ stack' = r.g.stack
           /\ lb' = r.g.lb
           /\ frames' = below \o r.call
           /\ shadow' = ShadowAfter(name, r.g.low)

Enabled == status = "running" /\ steps < MaxSteps

\* run_token on a Symbol that is not a variable and has a primitive, which
\* leaves r
Primitive(s, name, lex, r) ==
    /\ Head(s.toks) = Tok("Symbol", lex)
    /\ ~Bound(Head(s.toks))
    /\ Commit(name, Head(s.toks), r, With(Tail(s.toks)), s.free)

Tilde ==
    /\ Enabled
    /\ \E s \in Supply : Primitive(s, "tilde", B(<<"~">>), tilde(Gs(stack, lb)))
    /\ UNCHANGED <<vars, rng_state>>

AtSign ==
    /\ Enabled
    /\ \E s \in Supply : Primitive(s, "at_sign", B(<<"@">>), at_sign(Gs(stack, lb)))
    /\ UNCHANGED <<vars, rng_state>>

Plus ==
    /\ Enabled
    /\ \E s \in Supply : Primitive(s, "plus", B(<<"+">>), gs_plus(Gs(stack, lb)))
    /\ UNCHANGED <<vars, rng_state>>

Asterisk ==
    /\ Enabled
    /\ \E s \in Supply : Primitive(s, "asterisk", B(<<"*">>), asterisk(Gs(stack, lb)))
    /\ UNCHANGED <<vars, rng_state>>

Slash ==
    /\ Enabled
    /\ \E s \in Supply : Primitive(s, "slash", B(<<"/">>), slash(Gs(stack, lb)))
    /\ UNCHANGED <<vars, rng_state>>

Percent ==
    /\ Enabled
    /\ \E s \in Supply : Primitive(s, "percent", B(<<"%">>), percent(Gs(stack, lb)))
    /\ UNCHANGED <<vars, rng_state>>

LeftBracket ==
    /\ Enabled
    /\ \E s \in Supply : Primitive(s, "left_bracket", B(<<"[">>), left_bracket(Gs(stack, lb)))
    /\ UNCHANGED <<vars, rng_state>>

RightBracket ==
    /\ Enabled
    /\ \E s \in Supply : Primitive(s, "right_bracket", B(<<"]">>), right_bracket(Gs(stack, lb)))
    /\ UNCHANGED <<vars, rng_state>>

Backslash ==
    /\ Enabled
    /\ \E s \in Supply : Primitive(s, "backslash", B(<<"\\">>), backslash(Gs(stack, lb)))
    /\ UNCHANGED <<vars, rng_state>>

Semicolon ==
    /\ Enabled
    /\ \E s \in Supply : Primitive(s, "semicolon", B(<<";">>), semicolon(Gs(stack, lb)))
    /\ UNCHANGED <<vars, rng_state>>

Dup ==
    /\ Enabled
    /\ \E s \in Supply : Primitive(s, "dup", B(<<".">>), dup(Gs(stack, lb)))
    /\ UNCHANGED <<vars, rng_state>>

Base ==
    /\ Enabled
    /\ \E s \in Supply : Primitive(s, "base", B(<<"b", "a", "s", "e">>), base(Gs(stack, lb)))
    /\ UNCHANGED <<vars, rng_state>>

Bang ==
    /\ Enabled
    /\ \E s \in Supply : Primitive(s, "bang", B(<<"!">>), bang(Gs(stack, lb)))
    /\ UNCHANGED <<vars, rng_state>>

\* `$` on an empty stack or with an Int on top; the sorting arms of
\* Gs::dollar are not executed by this model and stop the run
Dollar ==
    /\ Enabled
    /\ Len(stack) > 0 => Last(stack).k = "Int"
    /\ \E s \in Supply : Primitive(s, "dollar", B(<<"$">>), dollar(Gs(stack, lb)))
    /\ UNCHANGED <<vars, rng_state>>

\* `?`; the find arms of Gs::question (a Blk with a sequence) are not
\* executed by this model and stop the run, and so does a power beyond
\* MaxPow
Question ==
    /\ Enabled
    /\ Len(stack) >= 2 =>
          LET a == stack[Len(stack) - 1]
              b == stack[Len(stack)]
          IN  /\ "Blk" \in {a.k, b.k} => "Int" \in {a.k, b.k}
              /\ (a.k = "Int" /\ b.k = "Int") =>
                     (abs(a.v) <= MaxPow /\ b.v <= MaxPow)
    /\ \E s \in Supply : Primitive(s, "question", B(<<"?">>), question(Gs(stack, lb)))
    /\ UNCHANGED <<vars, rng_state>>

Rand ==
    /\ Enabled
    /\ \E s \in Supply :
          Primitive(s, "rand", B(<<"r", "a", "n", "d">>),
                    rand(Gs(stack, lb), rng_state))
    /\ rng_state' = IF Len(stack) > 0 /\ Last(stack).k = "Int" /\ Last(stack).v > 0
                    THEN rng(rng_state) ELSE rng_state
    /\ vars' = vars

Do ==
    /\ Enabled
    /\ \E s \in Supply : Primitive(s, "do", B(<<"d", "o">>), do_loop(Gs(stack, lb)))
    /\ UNCHANGED <<vars, rng_state>>

While ==
    /\ Enabled
    /\ \E s \in Supply :
          Primitive(s, "while", B(<<"w", "h", "i", "l", "e">>),
                    while_loop(Gs(stack, lb), TRUE))
    /\ UNCHANGED <<vars, rng_state>>

Until ==
    /\ Enabled
    /\ \E s \in Supply :
          Primitive(s, "until", B(<<"u", "n", "t", "i", "l">>),
                    while_loop(Gs(stack, lb), FALSE))
    /\ UNCHANGED <<vars, rng_state>>

\* what run_token pushes for a literal token
Literal(t) ==
    CASE t.t = "IntLiteral" -> IntV(parse_bytes(t.lex))
      [] t.t = "SingleQuotedString" -> StrV(unescape(t.lex, TRUE))
      [] t.t = "DoubleQuotedString" -> StrV(unescape(t.lex, FALSE))
      [] t.t = "Block" -> BlkV(t.lex)

\* run_token on an IntLiteral, a quoted string or a Block that is not a
\* variable
And ==
    /\ Enabled
    /\ \E s \in Supply :
          Primitive(s, "and", B(<<"a", "n", "d">>), gs_and(Gs(stack, lb)))
    /\ UNCHANGED <<vars, rng_state>>

Or ==
    /\ Enabled
    /\ \E s \in Supply :
          Primitive(s, "or", B(<<"o", "r">>), gs_or(Gs(stack, lb)))
    /\ UNCHANGED <<vars, rng_state>>

VerticalBar ==
    /\ Enabled
    /\ \E s \in Supply :
          Primitive(s, "vertical_bar", B(<<"|">>), vertical_bar(Gs(stack, lb)))
    /\ UNCHANGED <<vars, rng_state>>

Ampersand ==
    /\ Enabled
    /\ \E s \in Supply :
          Primitive(s, "ampersand", B(<<"&">>), ampersand(Gs(stack, lb)))
    /\ UNCHANGED <<vars, rng_state>>

Caret ==
    /\ Enabled
    /\ \E s \in Supply : Primitive(s, "caret", B(<<"^">>), caret(Gs(stack, lb)))
    /\ UNCHANGED <<vars, rng_state>>

PushLiteral ==
    /\ Enabled
    /\ \E s \in Supply :
          /\ Head(s.toks).t \in {"IntLiteral", "SingleQuotedString",
                                 "DoubleQuotedString", "Block"}
          /\ ~Bound(Head(s.toks))
          /\ Commit("literal", Head(s.toks),
                    Ret(push(Gs(stack, lb), Literal(Head(s.toks)))),
                    With(Tail(s.toks)), s.free)
    /\ UNCHANGED <<vars, rng_state>>

\* run_token on a Comment, or on a Symbol without a primitive: nothing
Skip ==
    /\ Enabled
    /\ \E s \in Supply :
          /\ \/ Head(s.toks).t = "Comment"
             \/ /\ Head(s.toks).t = "Symbol"
                /\ Head(s.toks).lex \notin Modelled \cup NotModelled \cup {<<58>>}
          /\ ~Bound(Head(s.toks))
          /\ Commit("skip", Head(s.toks), Ret(Gs(stack, lb)), With(Tail(s.toks)),
                    s.free)
    /\ UNCHANGED <<vars, rng_state>>

\* run_token on a token whose lexeme is a variable: go(v)
Variable ==
    /\ Enabled
    /\ \E s \in Supply :
          /\ Head(s.toks) # Colon
          /\ Bound(Head(s.toks))
          /\ Commit("variable", Head(s.toks),
                    go(Gs(stack, lb), vars[Head(s.toks).lex]),
                    With(Tail(s.toks)), s.free)
    /\ UNCHANGED <<vars, rng_state>>

\* insert that keeps the value of a name already bound: a faulty variant
insert_if_absent(map, name, t) ==
    [x \in DOMAIN map \cup {name} |-> IF x \in DOMAIN map THEN map[x] ELSE t]

\* an insert that forgets the other bindings: a faulty variant
insert_alone(map, name, t) == name :> t

\* self.vars.insert(name, t)
insert(map, name, t) ==
    [x \in DOMAIN map \cup {name} |-> IF x = name THEN t ELSE map[x]]

\* Gs::run on Symbol(":"): the next token names the variable, the top of the
\* stack is its value
Assign ==
    /\ Enabled
    /\ \E s \in Supply :
          /\ Head(s.toks) = Colon
          /\ IF Len(s.toks) < 2 \/ Len(stack) = 0
             THEN /\ Commit("assign", Colon, Ret(panic(Gs(stack, lb))), frames,
                            s.free)
                  /\ UNCHANGED <<vars, rng_state>>
             ELSE /\ Commit("assign", Colon, Ret(Gs(stack, lb)),
                            With(Tail(Tail(s.toks))), s.free)
                  /\ vars' = insert(vars, s.toks[2].lex, Last(stack))
                  /\ rng_state' = rng_state

\* a run called by a primitive has executed its last token: the caller goes
\* on with r
Return(kind, r) ==
    /\ Len(frames) > 1
    /\ Len(TopFrame.toks) = 0
    /\ TopFrame.kind = kind
    /\ Commit(kind, NoTok, r, Front(frames), FALSE)

ReturnRun ==
    /\ Enabled
    /\ Return("run", AfterRun(Gs(stack, lb), TopFrame))
    /\ UNCHANGED <<vars, rng_state>>

ReturnTimes ==
    /\ Enabled
    /\ Return("times", AfterTimes(Gs(stack, lb), TopFrame))
    /\ UNCHANGED <<vars, rng_state>>

ReturnFold ==
    /\ Enabled
    /\ Return("fold", AfterEach(Gs(stack, lb), TopFrame))
    /\ UNCHANGED <<vars, rng_state>>

ReturnEach ==
    /\ Enabled
    /\ Return("each", AfterEach(Gs(stack, lb), TopFrame))
    /\ UNCHANGED <<vars, rng_state>>

ReturnMap ==
    /\ Enabled
    /\ Return("map", AfterMap(Gs(stack, lb), TopFrame))
    /\ UNCHANGED <<vars, rng_state>>

ReturnUnfold ==
    /\ Enabled
    /\ Return("unfold", AfterUnfold(Gs(stack, lb), TopFrame))
    /\ UNCHANGED <<vars, rng_state>>

ReturnDo ==
    /\ Enabled
    /\ Return("do", AfterDo(Gs(stack, lb), TopFrame))
    /\ UNCHANGED <<vars, rng_state>>

ReturnWhile ==
    /\ Enabled
    /\ Return("while", AfterWhile(Gs(stack, lb), TopFrame))
    /\ UNCHANGED <<vars, rng_state>>

RngSeed == 123456789

\* Gs::new, and the code given to Gs::run
Init ==
    /\ stack = <<>>
    /\ vars = <<>>
    /\ lb = <<>>
    /\ rng_state = u64(RngSeed, 8)
    /\ \E p \in Prefixes :
          /\ frames = <<[Frame0 EXCEPT !.code = p,
                                       !.toks = IF Tokenize(p).ok
                                                THEN Tokenize(p).toks ELSE <<>>]>>
          /\ status = IF Tokenize(p).ok THEN "running" ELSE "panic"
    /\ input = <<>>
    /\ fuel = MaxFree
    /\ steps = 0
    /\ op = Op("new", NoTok)
    /\ shadow = <<>>

Next ==
    \/ Tilde \/ AtSign \/ Plus \/ Asterisk \/ Slash \/ Percent
    \/ LeftBracket \/ RightBracket \/ Backslash \/ Semicolon \/ Dup \/ Base
    \/ Bang \/ Dollar \/ Question \/ Rand \/ Do \/ While \/ Until
    \/ And \/ Or \/ VerticalBar \/ Ampersand \/ Caret
    \/ PushLiteral \/ Skip \/ Variable \/ Assign
    \/ ReturnRun \/ ReturnTimes \/ ReturnFold \/ ReturnEach \/ ReturnMap
    \/ ReturnUnfold \/ ReturnDo \/ ReturnWhile

Spec == Init /\ [][Next]_vars_all


----------------------------------------------------------------------------
(* The evaluator started on a given stack.  The stacks, marks and operands *)
(* below are ones code can build with literals, `[` and `]`.               *)

MaxLen == 4
MaxMarks == 2
MaxN == 40
MaxB == 6
MaxSeq == 2
MaxGcd == 7
MaxLoop == 3

\* Gs with the stack s and the marks marks, about to run code
Start(s, marks, code) ==
    /\ stack = s
    /\ vars = <<>>
    /\ lb = marks
    /\ rng_state = u64(RngSeed, 8)
    /\ frames = <<[Frame0 EXCEPT !.code = code, !.toks = Tokenize(code).toks]>>
    /\ status = "running"
    /\ input = s
    /\ fuel = 0
    /\ steps = 0
    /\ op = Op("new", NoTok)
    /\ shadow = [i \in 1..Len(marks) |-> [len0 |-> marks[i], low |-> marks[i]]]

\* the run of the top-level code has executed its last token
Done == status = "running" /\ Len(frames) = 1 /\ Len(frames[1].toks) = 0

Vals == {IntV(1), ArrV(<<IntV(2)>>), StrV(<<97>>), BlkV(<<59>>)}

Stacks == UNION {[1..n -> Vals] : n \in 0..MaxLen}

\* the marks `[` can have left on a stack of length n
MarksOf(n) ==
    {m \in UNION {[1..k -> 0..n] : k \in 0..MaxMarks} :
        \A i \in 1..Len(m) - 1 : m[i] <= m[i + 1]}

InitAtSign ==
    \E s \in Stacks : \E m \in MarksOf(Len(s)) :
        Start(s, m, B(<<"@", "@", "@">>))

SpecAtSign == InitAtSign /\ [][AtSign]_vars_all

InitBackslash ==
    \E s \in Stacks : \E m \in MarksOf(Len(s)) :
        Start(s, m, B(<<"\\", "\\">>))

SpecBackslash == InitBackslash /\ [][Backslash]_vars_all

\* n b on the stack, and the code `base b base`
InitBase ==
    \E n \in -MaxN..MaxN : \E b \in -MaxB..MaxB :
        Start(<<IntV(n), IntV(b)>>, <<>>,
              B(<<"b", "a", "s", "e", " ">>) \o to_str_radix(b)
                \o B(<<"b", "a", "s", "e">>))

SpecBase == InitBase /\ [][Base \/ PushLiteral \/ Skip]_vars_all

\* the sequences of at most MaxSeq elements: Arrs of 97, 98 and [97], and
\* Strs of the bytes 97 and 98
Seqs ==
    {ArrV(a) : a \in UNION {[1..n -> {IntV(97), IntV(98), ArrV(<<IntV(97)>>)}] :
                              n \in 0..MaxSeq}}
    \cup {StrV(a) : a \in UNION {[1..n -> {97, 98}] : n \in 0..MaxSeq + 1}}

\* s sep on the stack, and the code `:x/x*`, which executes s sep / sep *
InitSplitJoin ==
    \E s \in Seqs : \E sep \in Seqs :
        Start(<<s, sep>>, <<>>, B(<<":", "x", "/", "x", "*">>))

SpecSplitJoin == InitSplitJoin /\ [][Assign \/ Slash \/ Variable \/ Asterisk]_vars_all

CoerceVals ==
    { IntV(0), IntV(-3), IntV(12), ArrV(<<>>), ArrV(<<IntV(1), StrV(<<97>>)>>),
      ArrV(<<ArrV(<<>>), BlkV(<<59>>)>>), StrV(<<>>), StrV(<<97, 98>>),
      BlkV(<<>>), BlkV(<<46>>) }

InitCoerce ==
    \E a \in CoerceVals : \E b \in CoerceVals : Start(<<a, b>>, <<>>, <<>>)

\* coerce(a, b) on the two values of the stack: the pair it returns
Coerce ==
    /\ status = "running"
    /\ op.name = "new"
    /\ Len(stack) = 2
    /\ LET c == coerce(stack[1], stack[2])
       IN  stack' = <<[k |-> c.k, v |-> c.a], [k |-> c.k, v |-> c.b]>>
    /\ op' = Op("coerce", NoTok)
    /\ steps' = steps + 1
    /\ UNCHANGED <<vars, lb, rng_state, frames, status, input, fuel, shadow>>

SpecCoerce == InitCoerce /\ [][Coerce]_vars_all

\* One primitive on a stack of one or two operands, or of an Int above up to
\* MaxLen values that differ from each other.
PrimVals ==
    { IntV(n) : n \in {-415, -160, -159, -7, -2, -1, 0, 1, 2, 3, 97, 98, 99, 255,
                       256, 353, 354, 609} }
    \cup { ArrV(<<>>), ArrV(<<IntV(0)>>), ArrV(<<IntV(98), IntV(97)>>),
           StrV(<<>>), StrV(<<48>>), StrV(<<98, 97>>), StrV(<<99, 97, 98, 97>>),
           BlkV(<<>>), BlkV(<<59>>) }

InitPrim ==
    \E s \in UNION {[1..n -> PrimVals] : n \in 0..2}
              \cup {Take(<<StrV(<<97>>), IntV(5), ArrV(<<>>), BlkV(<<59>>)>>, k)
                       \o <<IntV(n)>> : k \in 0..MaxLen, n \in -7..6} :
        \E code \in {B(<<"!">>), B(<<"$">>), B(<<"?">>), B(<<"/">>), B(<<"%">>)} :
            Start(s, <<>>, code)

\* The operands of `and` and `or`: falsey and truthy values of every kind
AndOrVals ==
    { IntV(0), IntV(3), ArrV(<<>>), StrV(<<>>), StrV(<<48>>), BlkV(<<>>),
      BlkV(<<59>>), BlkV(<<46>>) }

InitAndOr ==
    \E a \in AndOrVals : \E b \in AndOrVals :
        \E code \in {B(<<"a", "n", "d">>), B(<<"o", "r">>)} :
            Start(<<IntV(5), a, b>>, <<>>, code)

\* The operands of `|`, `&` and `^`
SetVals ==
    {ArrV(a) : a \in UNION {[1..n -> {IntV(1), IntV(2), IntV(3)}] : n \in 0..MaxSeq}
                     \cup [1..MaxSeq + 1 -> {IntV(1), IntV(2)}]}
    \cup {StrV(a) : a \in UNION {[1..n -> {49, 50}] : n \in 0..MaxSeq}}
    \cup {IntV(0), IntV(1), IntV(12), IntV(-3), BlkV(<<>>), BlkV(<<49, 50, 49>>)}

InitSet ==
    \E a \in SetVals : \E b \in SetVals :
        \E code \in {B(<<"|">>), B(<<"&">>), B(<<"^">>)} :
            Start(<<a, b>>, <<>>, code)

NextPrim ==
    \/ Bang \/ Dollar \/ Question \/ Slash
    \/ And \/ Or \/ Semicolon \/ Dup \/ ReturnRun
    \/ VerticalBar \/ Ampersand \/ Caret \/ Percent

SpecPrim == (InitPrim \/ InitAndOr \/ InitSet) /\ [][NextPrim]_vars_all

\* Short programs on a given stack: an Int and a sequence s under `{blk}%`
\* for the blocks of MapBlocks; two positive Ints under `{.@\%.} do ;`;
\* two sequences s sep under `:x;:y;y x/y x%`, which executes s sep / and
\* then s sep %.
MapBlocks ==
    { B(<<".", "*">>), B(<<".">>), B(<<";">>), <<>>, B(<<"~">>),
      B(<<";", ";", "0", " ", "0">>), B(<<"[", ".", "]">>) }

\* Loops over the values of the start stack: one that counts the runs of its
\* body in the variable c and has an empty condition, so that the values
\* tested are the start stack's, and one that drops what its condition
\* copies
WhilePrograms ==
    { [code |-> B(<<"0", ":", "c", ";", "{", "}", "{", "c", " ", "1", "+", ":",
                    "c", ";", "}">>) \o w \o B(<<" ", "c">>),
       kind |-> "count", which |-> w] :
        w \in {B(<<"w", "h", "i", "l", "e">>), B(<<"u", "n", "t", "i", "l">>)} }
    \cup
    { [code |-> B(<<"{", ".", "}", "{", ";", "}">>) \o w,
       kind |-> "drop", which |-> w] :
        w \in {B(<<"w", "h", "i", "l", "e">>), B(<<"u", "n", "t", "i", "l">>)} }

\* The operands of `rand`
RandNs == {-1, 0, 1, 2, 7, 256, MaxInt}

WhileVals == {IntV(0), IntV(2), ArrV(<<>>), StrV(<<48>>), BlkV(<<>>)}

\* Map blocks that pop below the element they are given, and some that do not
DeepBlocks ==
    { B(<<";", ";">>), B(<<";", ";", "0", " ", "0">>), B(<<";">>), B(<<".">>), <<>> }

\* The operands of the program of set operators and `rand`
SetRandVals ==
    { ArrV(<<IntV(1), IntV(2), IntV(1)>>), ArrV(<<IntV(2), IntV(1)>>),
      ArrV(<<IntV(3), IntV(2)>>), StrV(<<97, 98>>), StrV(<<98, 97>>), IntV(12) }

MapSeqs ==
    {ArrV(a) : a \in UNION {[1..n -> {IntV(1), IntV(2), IntV(3), IntV(20)}] :
                              n \in 0..MaxSeq + 1}}
    \cup {StrV(a) : a \in UNION {[1..n -> {20, 97}] : n \in 0..MaxSeq + 1}}

InitProg ==
    \/ \E s \in MapSeqs : \E blk \in MapBlocks :
          Start(<<IntV(5), s>>, <<>>, <<123>> \o blk \o <<125, 37>>)
    \/ \E s \in MapSeqs : \E blk \in DeepBlocks :
          Start(<<IntV(5), IntV(6), s>>, <<>>, <<123>> \o blk \o <<125, 37>>)
    \/ \E a \in 1..MaxGcd : \E b \in 1..MaxGcd :
          Start(<<IntV(a), IntV(b)>>, <<>>,
                B(<<"{", ".", "@", "\\", "%", ".", "}", " ", "d", "o", " ", ";">>))
    \/ \E s \in Seqs \cup {StrV(B(<<"a", ",", "b", ",", ",", "c">>))} :
          \E sep \in Seqs \cup {StrV(B(<<",">>))} :
             Start(<<s, sep>>, <<>>,
                   B(<<":", "x", ";", ":", "y", ";", "y", " ", "x", "/", "y", " ",
                       "x", "%">>))
    \/ \E s \in UNION {[1..n -> WhileVals] : n \in 0..MaxLoop} :
          \E p \in WhilePrograms : Start(s, <<>>, p.code)
    \/ \E s \in [1..3 -> {IntV(n) : n \in RandNs}] :
          Start(s, <<>>, B(<<"r", "a", "n", "d", "\\", "r", "a", "n", "d", "@",
                             "r", "a", "n", "d">>))

NextProg ==
    \/ PushLiteral \/ Skip \/ Percent \/ Dup \/ Asterisk \/ Semicolon \/ Tilde
    \/ LeftBracket \/ RightBracket \/ ReturnMap
    \/ Do \/ AtSign \/ Backslash \/ ReturnDo
    \/ Assign \/ Variable \/ Slash
    \/ While \/ Until \/ ReturnWhile \/ Plus
    \/ Rand

SpecProg == InitProg /\ [][NextProg]_vars_all

\* One program that stores both operands, applies the three set operators and
\* draws two random numbers, started on every pair of SetRandVals.
InitDet ==
    \E a \in SetRandVals : \E b \in SetRandVals :
       Start(<<a, b>>, <<>>,
             B(<<":", "b", ";", ":", "a", ";", "a", " ", "b", "|", "a", " ", "b",
                 "&", "a", " ", "b", "^", "7", " ", "r", "a", "n", "d", " ", "9",
                 " ", "r", "a", "n", "d">>))

NextDet ==
    \/ PushLiteral \/ Skip \/ Semicolon \/ Assign \/ Variable
    \/ VerticalBar \/ Ampersand \/ Caret \/ Rand

SpecDet == InitDet /\ [][NextDet]_vars_all


----------------------------------------------------------------------------
(* Properties.                                                             *)

\* C1: a pop on a non-empty stack of length L (the step of `;`) removes the
\* top, lowers by one (not below 0) every mark m >= L and leaves every mark
\* m < L as it is.
C1_PopSlidesEveryMark ==
    [][op'.name = "semicolon" /\ status' = "running" =>
          /\ stack' = Front(stack)
          /\ lb' = [i \in 1..Len(lb) |->
                      IF lb[i] >= Len(stack) THEN Max(lb[i] - 1, 0) ELSE lb[i]]
      ]_vars_all

\* C2: the Arr pushed by a `]` that takes a pending mark has as many
\* elements as the stack has gained since the `[` of that mark plus the
\* number of values below the stack top at that `[` consumed since.
C2_ArrSize ==
    [][op'.name = "right_bracket" /\ status' = "running" /\ Len(shadow) > 0 =>
          Len(Last(stack').v) =
              (Len(stack) - Last(shadow).len0)
                  + (Last(shadow).len0 - Last(shadow).low)
      ]_vars_all

\* C3: `[` appends the stack length to the marks and leaves the stack as it
\* is; `]` removes the newest mark m (0 when there is none), leaves the
\* entries below m as they are and replaces the entries from m on by one Arr
\* of them, so that the stack has m + 1 entries.
C3_BracketProtocol ==
    [][/\ op'.name = "left_bracket" =>
             /\ status' = "running"
             /\ lb' = Append(lb, Len(stack))
             /\ stack' = stack
       /\ op'.name = "right_bracket" =>
             LET m == IF Len(lb) = 0 THEN 0 ELSE Last(lb)
             IN  /\ status' = "running"
                 /\ lb' = IF Len(lb) = 0 THEN lb ELSE Front(lb)
                 /\ Len(stack') = m + 1
                 /\ Take(stack', m) = Take(stack, m)
                 /\ Last(stack') = ArrV(Drop(stack, m))
      ]_vars_all

\* C4: `:` met on a non-empty stack with a token after it takes that token
\* without executing it, binds its lexeme to the value on top of the stack
\* and leaves the stack, the marks and every other binding as they are.
C4_Assign ==
    [][/\ op'.name = "assign" /\ status' = "running" =>
             \E s \in Supply :
                 /\ Head(s.toks) = Colon
                 /\ Len(s.toks) >= 2
                 /\ Len(stack) > 0
                 /\ stack' = stack
                 /\ lb' = lb
                 /\ frames' = With(Tail(Tail(s.toks)))
                 /\ DOMAIN vars' = DOMAIN vars \cup {s.toks[2].lex}
                 /\ vars'[s.toks[2].lex] = Last(stack)
                 /\ \A x \in DOMAIN vars \ {s.toks[2].lex} : vars'[x] = vars[x]
       /\ (/\ Len(TopFrame.toks) >= 2
           /\ Head(TopFrame.toks) = Colon
           /\ Len(stack) > 0) =>
             op'.name = "assign" /\ status' = "running"
      ]_vars_all

C4_Witness ==
    /\ op.name = "assign"
    /\ status = "running"
    /\ B(<<";">>) \in DOMAIN vars
    /\ vars[B(<<";">>)] = IntV(0)
    /\ Len(lb) > 0

\* C5: a token other than `:` whose lexeme is bound is executed by going its
\* value (a Blk is run as code on the same stack and marks, any other value
\* is pushed) and not as a primitive or a literal; a token whose lexeme is
\* not bound is not executed as a variable.
C5_VariableDispatch ==
    [][op'.tok # NoTok /\ op'.tok # Colon =>
          IF op'.tok.lex \in DOMAIN vars
          THEN /\ op'.name = "variable"
               /\ vars' = vars
               /\ LET v == vars[op'.tok.lex]
                  IN  IF v.k # "Blk"
                      THEN /\ status' = "running"
                           /\ stack' = Append(stack, v)
                           /\ lb' = lb
                           /\ Len(frames') = Len(frames)
                      ELSE IF Tokenize(v.v).ok
                      THEN /\ status' = "running"
                           /\ stack' = stack
                           /\ lb' = lb
                           /\ Len(frames') = Len(frames) + 1
                           /\ Last(frames').kind = "run"
                           /\ Last(frames').toks = Tokenize(v.v).toks
                      ELSE status' = "panic"
          ELSE op'.name # "variable"
      ]_vars_all

C5_Witness ==
    /\ op = Op("variable", Tok("Symbol", B(<<"x">>)))
    /\ status = "running"
    /\ Len(frames) = 2
    /\ Last(frames).toks = <<Tok("Symbol", B(<<";">>))>>

\* C6: on a stack of at least three entries one `@` turns the top three
\* a b c into b c a and leaves the entries below as they are, and three `@`
\* in a row leave the stack as it was.
C6_AtSignThrice ==
    Len(input) >= 3 =>
        /\ status = "running"
        /\ steps = 1 =>
              stack = Take(input, Len(input) - 3)
                        \o <<input[Len(input) - 1], input[Len(input)],
                             input[Len(input) - 2]>>
        /\ steps = 3 => stack = input

C6_Witness ==
    /\ steps = 3
    /\ status = "running"
    /\ Len(input) = 4
    /\ input[2] # input[3]
    /\ input[3] # input[4]
    /\ Len(lb) > 0

\* C7: on a stack of at least two entries two `\` in a row leave the stack
\* as it was.
C7_BackslashTwice ==
    Len(input) >= 2 =>
        /\ status = "running"
        /\ steps = 2 => stack = input

C7_Witness ==
    /\ steps = 2
    /\ status = "running"
    /\ Len(input) >= 3
    /\ input[Len(input) - 1] # input[Len(input)]
    /\ Len(lb) > 0

\* C8 as stated: for every Int n and every Int b > 1, `n b base b base`
\* leaves n.
C8_BaseRoundTripAnyInt ==
    (Done /\ input[2].v > 1) => stack = <<IntV(input[1].v)>>

\* C8: for every Int n and every Int b > 1, `n b base b base` runs to its
\* end and leaves n when n >= 0, and -n when n < 0.
C8_BaseRoundTrip ==
    input[2].v > 1 =>
        /\ status = "running"
        /\ Done =>
              stack = <<IntV(IF input[1].v < 0 THEN -input[1].v ELSE input[1].v)>>

C8_Witness ==
    /\ Done
    /\ input[2].v > 1
    /\ input[1].v > input[2].v * input[2].v
    /\ stack = <<input[1]>>

\* C9 as stated: for every sequence s and every non-empty sequence sep,
\* `s sep / sep *` leaves s on top of the stack.
C9_SplitJoinAnySeq ==
    (Done /\ Len(input[2].v) > 0) => (Len(stack) > 0 /\ Last(stack) = input[1])

\* C9: for s and sep both Arr or both Str, sep not empty, `s sep / sep *`
\* runs to its end and leaves s alone on the stack.
C9_SplitJoinSameKind ==
    (Len(input[2].v) > 0 /\ input[1].k = input[2].k) =>
        /\ status = "running"
        /\ Done => stack = <<input[1]>>

C9_Witness ==
    /\ Done
    /\ input = <<StrV(<<97, 98, 97>>), StrV(<<98>>)>>
    /\ stack = <<StrV(<<97, 98, 97>>)>>

\* Int < Arr < Str < Blk
KindRank(k) ==
    CASE k = "Int" -> 0 [] k = "Arr" -> 1 [] k = "Str" -> 2 [] k = "Blk" -> 3

\* C10: coerce(a, b) and coerce(b, a) return pairs of the same kind, the
\* higher of the kinds of a and b in the order Int < Arr < Str < Blk.
C10_CoerceSymmetric ==
    op.name = "coerce" =>
        /\ stack[1].k = stack[2].k
        /\ KindRank(stack[1].k) = Max(KindRank(input[1].k), KindRank(input[2].k))
        /\ coerce(input[2], input[1]).k = stack[1].k

C10_Witness ==
    /\ op.name = "coerce"
    /\ input[1].k = "Str"
    /\ input[2].k = "Blk"
    /\ stack[1].k = "Blk"

\* C11: a value is falsey exactly when it is Int 0, the empty Arr, the empty
\* Str or the empty Blk, and `!` on a non-empty stack replaces the top by
\* Int 1 when it is falsey and by Int 0 otherwise.
C11_Falsiness ==
    (frames[1].code = B(<<"!">>) /\ Len(input) > 0) =>
        LET v == Last(input)
            empty == v = IntV(0) \/ v = ArrV(<<>>) \/ v = StrV(<<>>) \/ v = BlkV(<<>>)
        IN  /\ status = "running"
            /\ falsey(v) <=> empty
            /\ truthy(v) <=> ~empty
            /\ steps = 1 =>
                  stack = Append(Front(input), IntV(IF empty THEN 1 ELSE 0))

C11_Witness ==
    /\ op.name = "bang"
    /\ Len(input) = 2
    /\ Last(input) = BlkV(<<>>)
    /\ stack = <<input[1], IntV(1)>>

\* what the block blk leaves above the recorded height when it is run on
\* the element e, an Int
MapYield(blk, e) ==
    CASE blk = B(<<".", "*">>) -> <<IntV(e * e)>>
      [] blk = B(<<".">>) -> <<IntV(e), IntV(e)>>
      [] blk = B(<<";">>) -> <<>>
      [] blk = <<>> -> <<IntV(e)>>
      [] blk = B(<<"~">>) -> <<IntV(-e - 1)>>
      [] blk = B(<<";", ";", "0", " ", "0">>) -> <<IntV(0)>>
      [] blk = B(<<"[", ".", "]">>) -> <<ArrV(<<IntV(e), IntV(e)>>)>>

\* the same values as the bytes a Str result holds
MapYieldBytes(blk, e) ==
    CASE blk = B(<<".", "*">>) -> <<(e * e) % 256>>
      [] blk = B(<<".">>) -> <<e, e>>
      [] blk = B(<<";">>) -> <<>>
      [] blk = <<>> -> <<e>>
      [] blk = B(<<"~">>) -> <<255 - e>>
      [] blk = B(<<";", ";", "0", " ", "0">>) -> <<0>>
      [] blk = B(<<"[", ".", "]">>) -> <<e, e>>

\* the yields of the elements es, in order
RECURSIVE MapYields(_, _, _)
MapYields(blk, es, bytes) ==
    IF es = <<>> THEN <<>>
    ELSE (IF bytes THEN MapYieldBytes(blk, Head(es)) ELSE MapYield(blk, Head(es).v))
            \o MapYields(blk, Tail(es), bytes)

\* C12: `s {blk} %` runs to its end and leaves, on top of the entries below
\* the recorded height, one value that collects in order what the block
\* left above that height for each element of s: an Arr of those values
\* when s is an Arr, and when s is a Str the Str of their bytes, an Int n
\* giving the byte n mod 256.
C12_Map ==
    (/\ Len(frames[1].code) >= 2 /\ frames[1].code[1] = 123
     /\ Last(frames[1].code) = 37 /\ Len(input) = 2) =>
        LET blk == SubSeq(frames[1].code, 2, Len(frames[1].code) - 2)
            s == input[2]
            below == IF blk = B(<<";", ";", "0", " ", "0">>) /\ Len(s.v) > 0
                     THEN IntV(0) ELSE input[1]
        IN  /\ status = "running"
            /\ Done =>
                  stack = <<below,
                            IF s.k = "Arr" THEN ArrV(MapYields(blk, s.v, FALSE))
                            ELSE StrV(MapYields(blk, s.v, TRUE))>>

C12_Witness ==
    /\ Done
    /\ input = <<IntV(5), ArrV(<<IntV(1), IntV(2), IntV(3)>>)>>
    /\ stack = <<IntV(5), ArrV(<<IntV(1), IntV(4), IntV(9)>>)>>

\* the greatest common divisor of a > 0 and b > 0
Gcd(a, b) ==
    CHOOSE d \in 1..a : /\ a % d = 0 /\ b % d = 0
                        /\ \A e \in 1..a : (a % e = 0 /\ b % e = 0) => e <= d

\* C13: `do` pops its body and runs it; after every run of the body one
\* value is popped, and the body is run again when that value is truthy
\* while the loop is left, the body not run again, when it is falsey.  On
\* two positive Ints a b, `{.@\%.} do ;` ends with their greatest common
\* divisor alone on the stack (6 7 gives 1).
C13_DoLoop ==
    [][/\ (op'.name = "do" /\ op'.tok # NoTok /\ Len(stack) > 0
              /\ Last(stack).k = "Blk" /\ Tokenize(Last(stack).v).ok) =>
             /\ status' = "running"
             /\ stack' = Front(stack)
             /\ Len(frames') = Len(frames) + 1
             /\ Last(frames').toks = Tokenize(Last(stack).v).toks
       /\ (op'.name = "do" /\ op'.tok = NoTok /\ Len(stack) > 0) =>
             /\ status' = "running"
             /\ stack' = Front(stack)
             /\ IF Last(stack) \in {IntV(0), ArrV(<<>>), StrV(<<>>), BlkV(<<>>)}
                THEN frames' = Front(frames)
                ELSE /\ Len(frames') = Len(frames)
                     /\ Last(frames').toks = Tokenize(TopFrame.code).toks
                     /\ Front(frames') = Front(frames)
       /\ (Len(frames[1].code) > 0 /\ Last(frames[1].code) = 59
              /\ frames[1].code[1] = 123 /\ Len(input) = 2) =>
             /\ status' = "running"
             /\ Done' => stack' = <<IntV(Gcd(input[1].v, input[2].v))>>
      ]_vars_all

C13_Witness ==
    /\ Done
    /\ op.name = "semicolon"
    /\ input = <<IntV(6), IntV(7)>>
    /\ stack = <<IntV(1)>>

\* where sep occurs in a, as offsets
Occurrences(a, sep) ==
    {i \in 0..Len(a) - Len(sep) : SubSeq(a, i + 1, i + Len(sep)) = sep}

\* the pieces of a between the successive occurrences of the non-empty sep,
\* each occurrence the leftmost one after the one before
RECURSIVE PiecesBetween(_, _)
PiecesBetween(a, sep) ==
    IF Occurrences(a, sep) = {} THEN <<a>>
    ELSE LET i == CHOOSE i \in Occurrences(a, sep) :
                      \A j \in Occurrences(a, sep) : i <= j
         IN  <<Take(a, i)>> \o PiecesBetween(Drop(a, i + Len(sep)), sep)

NotEmpty(piece) == Len(piece.v) > 0

FirstIndex(h, b) ==
    IF \A i \in 1..Len(h) : h[i] # b THEN -1
    ELSE (CHOOSE i \in 1..Len(h) : h[i] = b /\ \A j \in 1..i - 1 : h[j] # b) - 1

\* the Str and the Int of a stack of one Str and one Int, in either order
StrOf(s) == IF s[1].k = "Str" THEN s[1].v ELSE s[2].v

IntOf(s) == IF s[1].k = "Int" THEN s[1].v ELSE s[2].v

StrAndInt(s) ==
    Len(s) = 2 /\ {s[1].k, s[2].k} = {"Str", "Int"}

\* C15 as stated: `?` on a Str h and an Int n leaves the index of the first
\* byte of h equal to n mod 256, or -1, for every n.
C15_IndexModByte ==
    (frames[1].code = B(<<"?">>) /\ StrAndInt(input) /\ steps = 1) =>
        stack = <<IntV(FirstIndex(StrOf(input), IntOf(input) % 256))>>

\* C15: `?` on a Str h and an Int n, in either order, leaves the index of
\* the first byte of h equal to n when 0 <= n <= 255, and -1 when no byte
\* of h equals n or n is outside 0..255.
C15_IndexOfByte ==
    (frames[1].code = B(<<"?">>) /\ StrAndInt(input)) =>
        /\ status = "running"
        /\ steps = 1 =>
              stack = <<IntV(IF IntOf(input) \in 0..255
                             THEN FirstIndex(StrOf(input), IntOf(input))
                             ELSE -1)>>

C15_Witness ==
    /\ op.name = "question"
    /\ input = <<IntV(353), StrV(<<98, 97>>)>>
    /\ stack = <<IntV(-1)>>

\* C16: `$` with an Int n on top pops n; with S entries left, it pushes a
\* copy of the entry n positions below the top when 0 <= n < S, a copy of
\* the entry at index -n - 2 from the bottom when n < -1 and -n - 2 < S, and
\* nothing in every other case.
C16_DollarInt ==
    (frames[1].code = B(<<"$">>) /\ Len(input) > 0 /\ Last(input).k = "Int") =>
        LET n == Last(input).v
            rest == Front(input)
            S == Len(rest)
        IN  /\ status = "running"
            /\ steps = 1 =>
                  stack = IF 0 <= n /\ n < S THEN Append(rest, rest[S - n])
                          ELSE IF n < -1 /\ -n - 2 < S
                          THEN Append(rest, rest[(-n - 2) + 1])
                          ELSE rest

C16_Witness ==
    /\ op.name = "dollar"
    /\ Len(input) = 5
    /\ Last(input) = IntV(-3)
    /\ stack = Append(Front(input), input[2])
    /\ input[2] # input[1]
    /\ input[2] # input[3]

\* The values on which `while` stops, and those on which `until` stops
Stops(x, which) ==
    (x \in {IntV(0), ArrV(<<>>), StrV(<<>>), BlkV(<<>>)})
        = (which = B(<<"w", "h", "i", "l", "e">>))

\* How many values from the top of s down are passed before one stops the loop
RECURSIVE Passed(_, _)
Passed(s, which) ==
    IF Len(s) = 0 \/ Stops(Last(s), which) THEN 0
    ELSE 1 + Passed(Front(s), which)

\* C17: `while` and `until` pop body and cond and run cond first; after
\* each run of cond one value is popped, the loop ends without a run of body
\* when that value is falsey (`while`) or truthy (`until`), and body runs
\* otherwise; after each run of body cond runs again.  So a loop whose body
\* counts its runs ends with the count of the values that did not stop it.
C17_WhileUntil ==
    [][/\ (op'.name \in {"while", "until"} /\ op'.tok # NoTok /\ Len(stack) >= 2
              /\ Last(stack).k = "Blk" /\ Last(Front(stack)).k = "Blk") =>
             /\ status' = "running"
             /\ stack' = Front(Front(stack))
             /\ Len(frames') = Len(frames) + 1
             /\ Last(frames').toks = Tokenize(Last(Front(stack)).v).toks
             /\ Last(frames').phase = "cond"
             /\ Last(frames').rest = <<Last(Front(stack)), Last(stack)>>
       /\ (op'.name = "while" /\ op'.tok = NoTok /\ TopFrame.phase = "cond"
              /\ Len(stack) > 0) =>
             /\ status' = "running"
             /\ stack' = Front(stack)
             /\ IF Stops(Last(stack), B(<<"w", "h", "i", "l", "e">>))
                      = (TopFrame.out = "while")
                THEN frames' = Front(frames)
                ELSE /\ Len(frames') = Len(frames)
                     /\ Front(frames') = Front(frames)
                     /\ Last(frames').toks = Tokenize(TopFrame.rest[2].v).toks
                     /\ Last(frames').phase = "body"
       /\ (op'.name = "while" /\ op'.tok = NoTok /\ TopFrame.phase = "body") =>
             /\ status' = "running"
             /\ stack' = stack
             /\ Len(frames') = Len(frames)
             /\ Last(frames').toks = Tokenize(TopFrame.rest[1].v).toks
             /\ Last(frames').phase = "cond"
       /\ \A p \in WhilePrograms :
             frames[1].code = p.code =>
                LET j == Passed(input, p.which)
                    below == Take(input, Len(input) - j - 1)
                IN  /\ status' # "hang"
                    /\ status' = "panic" => j = Len(input)
                    /\ Done' =>
                          /\ j < Len(input)
                          /\ p.kind = "count" =>
                                /\ stack' = Append(below, IntV(j))
                                /\ vars'[<<99>>] = IntV(j)
                          /\ p.kind = "drop" =>
                                stack' = Append(below, input[Len(input) - j])
      ]_vars_all

C17_Witness ==
    /\ Done
    /\ \E p \in WhilePrograms :
          /\ frames[1].code = p.code
          /\ p.kind = "count"
          /\ p.which = B(<<"u", "n", "t", "i", "l">>)
    /\ input = <<StrV(<<48>>), IntV(0), BlkV(<<>>)>>
    /\ stack = <<IntV(2)>>

\* The 64 bits of a PRNG state as four 16-bit digits, least significant first
Limbs(bs) == [i \in 1..4 |-> bs[2 * i - 1] + 256 * bs[2 * i]]

\* l * m mod 2^64 for a multiplier m < 2^15, digit by digit
MulSmall(l, m) ==
    LET t1 == l[1] * m
        t2 == l[2] * m + t1 \div 65536
        t3 == l[3] * m + t2 \div 65536
        t4 == l[4] * m + t3 \div 65536
    IN  <<t1 % 65536, t2 % 65536, t3 % 65536, t4 % 65536>>

\* x + y mod 2^64, digit by digit
AddLimbs(x, y) ==
    LET t1 == x[1] + y[1]
        t2 == x[2] + y[2] + t1 \div 65536
        t3 == x[3] + y[3] + t2 \div 65536
        t4 == x[4] + y[4] + t3 \div 65536
    IN  <<t1 % 65536, t2 % 65536, t3 % 65536, t4 % 65536>>

\* (l * 1664525 + 1013904223) mod 2^64, with 1664525 = 25 * 2^16 + 26125 and
\* 1013904223 = 15470 * 2^16 + 62303
LcgNext(l) ==
    LET low == MulSmall(l, 26125)
        high == MulSmall(l, 25)
    IN  AddLimbs(AddLimbs(low, <<0, high[1], high[2], high[3]>>),
                 <<62303, 15470, 0, 0>>)

\* l mod n for 0 < n <= MaxInt
LimbsMod(l, n) ==
    ((((((l[4] % n) * 65536 + l[3]) % n) * 65536 + l[2]) % n) * 65536 + l[1]) % n

\* C18: the PRNG state starts at 123456789 = 1883 * 2^16 + 52501; `rand` on
\* a positive Int n first replaces the state by
\* (state * 1664525 + 1013904223) mod 2^64 and pushes the new state mod n,
\* which is in [0, n); `rand` on an Int n <= 0 pushes 0 and leaves the state.
C18_Rand ==
    [][/\ steps = 0 => Limbs(rng_state) = <<52501, 1883, 0, 0>>
       /\ (op'.name = "rand" /\ Len(stack) > 0 /\ Last(stack).k = "Int") =>
             LET n == Last(stack).v
             IN  /\ status' = "running"
                 /\ Len(stack') = Len(stack)
                 /\ Front(stack') = Front(stack)
                 /\ IF n > 0
                    THEN /\ Limbs(rng_state') = LcgNext(Limbs(rng_state))
                         /\ Last(stack') = IntV(LimbsMod(Limbs(rng_state'), n))
                         /\ Last(stack').v >= 0
                         /\ Last(stack').v < n
                    ELSE /\ rng_state' = rng_state
                         /\ Last(stack') = IntV(0)
       /\ op'.name # "rand" => rng_state' = rng_state
       /\ (Done' /\ input = <<IntV(7), IntV(256), IntV(MaxInt)>>
              /\ op'.name = "rand") =>
             /\ MaxInt = 10000 => stack'[1] = IntV(4448)
             /\ stack'[2] = IntV(15)
             /\ stack'[3] = IntV(3)
             /\ Limbs(rng_state') = <<9762, 34363, 7094, 3221>>
      ]_vars_all

C18_Witness ==
    /\ Done
    /\ op.name = "rand"
    /\ input = <<IntV(7), IntV(0), IntV(256)>>
    /\ stack = <<IntV(112), IntV(0), IntV(5)>>
    /\ Limbs(rng_state) = <<6159, 57398, 37633, 35580>>

\* The sources that leave a remainder: an unmatched `}`, an unclosed `{`, an
\* unterminated quote
Unparseable(code) == ~Tokenize(code).ok

ZeroAndSeq(s) ==
    /\ Len(s) = 2
    /\ \/ s[1] = IntV(0) /\ s[2].k \in {"Arr", "Str"}
       \/ s[2] = IntV(0) /\ s[1].k \in {"Arr", "Str"}

SeqOf(s) == IF s[1].k = "Int" THEN s[2] ELSE s[1]

\* C20 as stated: `/` on the Int 0 and any sequence, the empty one included,
\* aborts and pushes nothing.
C20_ChunkByZeroAnySeq ==
    (frames[1].code = B(<<"/">>) /\ ZeroAndSeq(input) /\ steps = 1) =>
        /\ status = "panic"
        /\ stack = input

\* C20: `/` on the Int 0 and a non-empty Arr or Str, in either order, aborts
\* and pushes nothing; on the Int 0 and an empty Arr or Str it does not
\* abort and replaces both operands by the empty Arr.
C20_ChunkByZero ==
    (frames[1].code = B(<<"/">>) /\ ZeroAndSeq(input)) =>
        /\ steps = 0 => status = "running"
        /\ steps = 1 =>
              IF Len(SeqOf(input).v) > 0
              THEN status = "panic" /\ stack = input
              ELSE status = "running" /\ stack = <<ArrV(<<>>)>>

C20_Witness ==
    /\ frames[1].code = B(<<"/">>)
    /\ op.name = "slash"
    /\ input = <<IntV(0), StrV(<<98, 97>>)>>
    /\ status = "panic"
    /\ stack = input

\* The number of values each primitive pops before it does anything else
Pops ==
    [n \in {"tilde", "semicolon", "dup", "bang", "dollar", "rand", "do"} |-> 1]
    @@ [n \in {"backslash", "plus", "asterisk", "slash", "percent", "base",
               "question", "while", "until"} |-> 2]
    @@ [n \in {"at_sign"} |-> 3]

\* C21: a primitive met on a stack with fewer values than it pops, a loop
\* that pops its test value from an empty stack, and `:` met on an empty
\* stack abort: the state is left as it was before the token, so no value is
\* made up and the token is not skipped, and no step follows the abort.
C21_StackUnderflow ==
    [][/\ status = "running"
       /\ (\/ /\ op'.tok # NoTok
              /\ op'.name \in DOMAIN Pops
              /\ Len(stack) < Pops[op'.name]
           \/ /\ op'.tok = NoTok
              /\ op'.name = "do" \/ (op'.name = "while" /\ TopFrame.phase = "cond")
              /\ Len(stack) = 0
           \/ /\ op'.name = "assign"
              /\ Len(stack) = 0) =>
             /\ status' = "panic"
             /\ UNCHANGED <<stack, vars, lb, frames, rng_state>>
      ]_vars_all

\* `1 2 3;@`: three values are popped from a stack of two
C21_Witness ==
    /\ status = "panic"
    /\ op.name = "at_sign"
    /\ stack = <<IntV(1), IntV(2)>>

\* The operand `and` (code "and") or `or` selects from a and b
Selected(code, a, b) ==
    LET a_falsey == a \in {IntV(0), ArrV(<<>>), StrV(<<>>), BlkV(<<>>)}
    IN  IF code = B(<<"a", "n", "d">>)
        THEN (IF a_falsey THEN a ELSE b)
        ELSE (IF a_falsey THEN b ELSE a)

\* C22: `and` and `or` pop b then a; `and` selects a when a is falsey and b
\* otherwise, `or` selects a when a is truthy and b otherwise.  A selected
\* Blk is run as code, any other selected value is pushed, and the operand
\* that is not selected leaves no trace.
C22_AndOr ==
    (frames[1].code \in {B(<<"a", "n", "d">>), B(<<"o", "r">>)} /\ Len(input) = 3) =>
        LET sel == Selected(frames[1].code, input[2], input[3])
        IN  /\ (steps = 1 /\ sel.k # "Blk") =>
                  Done /\ stack = <<input[1], sel>>
            /\ (steps = 1 /\ sel.k = "Blk") =>
                  /\ status = "running"
                  /\ stack = <<input[1]>>
                  /\ Len(frames) = 2
                  /\ frames[2].toks = Tokenize(sel.v).toks
            /\ (Done /\ sel = BlkV(<<>>)) => stack = <<input[1]>>
            /\ (Done /\ sel = BlkV(<<59>>)) => stack = <<>>
            /\ (Done /\ sel = BlkV(<<46>>)) => stack = <<input[1], input[1]>>
            /\ status = "running"
            /\ vars = <<>> /\ lb = <<>>

\* `5 {;} {.} and`: {;} is truthy, so {.} is selected and run
C22_Witness ==
    /\ Done
    /\ frames[1].code = B(<<"a", "n", "d">>)
    /\ input = <<IntV(5), BlkV(<<59>>), BlkV(<<46>>)>>
    /\ stack = <<IntV(5), IntV(5)>>
    /\ op.name = "run"

\* The set the operator of code makes of the values of a and b
SetOf(code, a, b) ==
    CASE code = B(<<"|">>) -> HashSet(a) \cup HashSet(b)
      [] code = B(<<"&">>) -> HashSet(a) \cap HashSet(b)
      [] code = B(<<"^">>) ->
             (HashSet(a) \cup HashSet(b)) \ (HashSet(a) \cap HashSet(b))

\* The index of the first occurrence of x in s
FirstAt(s, x) == CHOOSE i \in 1..Len(s) : s[i] = x /\ \A j \in 1..i - 1 : s[j] # x

\* r lists the set e, each element once, in the order of the first
\* occurrences in s
ListsInOrder(r, e, s) ==
    /\ HashSet(r) = e
    /\ \A i \in 1..Len(r) : \A j \in 1..Len(r) :
          i < j => r[i] # r[j] /\ FirstAt(s, r[i]) < FirstAt(s, r[j])

\* The start stacks of two operands that are not both Ints
SeqOperands == Len(input) = 2 /\ ~(input[1].k = "Int" /\ input[2].k = "Int")

\* C23: on operands that are not both Ints, `|`, `&` and `^` push the union,
\* the intersection and the symmetric difference of the coerced operands a
\* and b, each element once, in the order of the first occurrences in a
\* followed by b.
C23_SetOps ==
    (frames[1].code \in {B(<<"|">>), B(<<"&">>), B(<<"^">>)} /\ SeqOperands
        /\ steps = 1) =>
        LET c == coerce(input[1], input[2])
        IN  /\ Done
            /\ Len(stack) = 1
            /\ stack[1].k = c.k
            /\ ListsInOrder(stack[1].v, SetOf(frames[1].code, c.a, c.b), c.a \o c.b)

\* C24: after every token every pending mark is at most the stack length,
\* whatever the program, and so `]` never aborts.
C24_MarkBound ==
    /\ \A i \in 1..Len(lb) : lb[i] <= Len(stack)
    /\ ~(status = "panic" /\ op.name = "right_bracket")

\* C25: in every reachable state the marks are non-decreasing from the
\* oldest to the newest.
C25_MarksOrdered ==
    \A i \in 1..Len(lb) : \A j \in 1..Len(lb) : i < j => lb[i] <= lb[j]

\* C26: `/` and `%` applied to two sequences end, whatever the operands: the
\* token never leaves the evaluator in a loop without end.
C26_SplitTerminates ==
    (op.name \in {"slash", "percent"} /\ Len(stack) >= 2
        /\ Last(stack).k \in {"Arr", "Str"} /\ Last(Front(stack)).k \in {"Arr", "Str"}) =>
        status # "hang"

\* The programs `{...}%` started on two values below the sequence
DeepMap ==
    /\ Len(input) = 3
    /\ Len(frames[1].code) >= 2
    /\ frames[1].code[1] = 123
    /\ Last(frames[1].code) = 37

\* C27: in `%` map the stack is, at the end of every iteration, at least as
\* long as it was before the element was pushed, so the collection never
\* aborts, and the entries below that height are at the end those of before
\* the `%`.
C27_MapCollects ==
    DeepMap =>
        /\ (Len(frames) = 2 /\ frames[2].kind = "map" /\ Len(frames[2].toks) = 0) =>
              Len(stack) >= frames[2].lbm
        /\ status = "running"
        /\ Done => Take(stack, 2) = Take(input, 2)

\* C28: `[` adds one mark and `]` takes one away, or none when none is
\* pending; every other step keeps the number of marks and lowers marks at
\* most; a literal, a skipped token and `:` leave the marks as they are.
C28_MarkCount ==
    [][/\ op'.name = "left_bracket" => Len(lb') = Len(lb) + 1
       /\ (op'.name = "right_bracket" /\ status' = "running") =>
             Len(lb') = IF Len(lb) = 0 THEN 0 ELSE Len(lb) - 1
       /\ op'.name \notin {"left_bracket", "right_bracket"} =>
             /\ Len(lb') = Len(lb)
             /\ \A i \in 1..Len(lb) : lb'[i] <= lb[i]
       /\ op'.name \in {"literal", "skip", "assign"} => lb' = lb
      ]_vars_all

\* `;` has lowered the one pending mark below the stack length at its `[`
C28_Witness ==
    /\ op.name = "semicolon"
    /\ status = "running"
    /\ Len(lb) = 1
    /\ lb[1] < shadow[1].len0

\* C29: only `:` changes the variable map: every other step, the return of
\* a block run included, leaves it as it is, so a binding made inside a
\* block holds after the block; `:` sets the one name it binds to the value
\* on top of the stack and keeps every other binding.
C29_VarsOnlyByAssign ==
    [][/\ op'.name # "assign" => vars' = vars
       /\ (op'.name = "assign" /\ status' = "running") =>
             \E name \in DOMAIN vars' :
                /\ DOMAIN vars' = DOMAIN vars \cup {name}
                /\ vars'[name] = Last(stack)
                /\ \A other \in DOMAIN vars \ {name} : vars'[other] = vars[other]
       /\ (op'.name = "variable" /\ status' = "running"
              /\ vars[op'.tok.lex].k # "Blk") =>
             stack' = Append(stack, vars[op'.tok.lex])
      ]_vars_all

\* `1:y;2{:y}~;y`: y is bound to 1, bound again to 2 inside the block run by
\* `~`, and read after the block has returned
C29_Witness ==
    /\ Done
    /\ frames[1].code = B(<<"1", ":", "y", ";", "2", "{", ":", "y", "}", "~", ";", "y">>)
    /\ op.name = "variable"
    /\ vars[<<121>>] = IntV(2)
    /\ stack = <<IntV(2)>>
    /\ fuel = MaxFree

====
